---- MODULE Spec2Model ----
(***************************************************************************)
(* A model of the hexi tree-walk interpreter (src/src/interpreter.rs):     *)
(* the runtime Value model, the unified collection CValue with its         *)
(* size counter, method dispatch and the evaluator over the AST of         *)
(* src/src/ast.rs.  One interpreter is fed top-level expressions one at a  *)
(* time, as the REPL of src/src/main.rs does.                              *)
(***************************************************************************)
EXTENDS Integers, Sequences, FiniteSets, TLC

(***************************************************************************)
(* Bounds of the model.                                                    *)
(***************************************************************************)
\* The largest `size` a collection bound to a variable may reach.
MaxSize == 2
\* Value::Number(f64) is kept as a fixed-point integer counting 1/Scale
\* units, so that literals with a fractional part exist and `as usize`
\* truncates.
Scale == 2

\* The largest number of top-level expressions in one source text.
MaxExprs == 3

\* The longest source text, in characters, of those the lexer is run on
\* character by character.
MaxLen == 3

\* The most operands in a chain of binary operators handed to the parser, and
\* the most entries in a collection literal handed to it.
MaxAtoms == 3
MaxEntries == 2
MaxPhrases == 2

One == Scale
OneAndFraction == Scale + 1

Names == {"x", "y"}

(***************************************************************************)
(* Runtime values (interpreter.rs, enum Value / struct CValue / enum CKey) *)
(***************************************************************************)
Value_Number(n) == [type |-> "number", n |-> n]
Value_String(s) == [type |-> "string", s |-> s]
Value_Bool(b) == [type |-> "bool", b |-> b]
Value_Collection(c) == [type |-> "collection", c |-> c]
Value_Nil == [type |-> "nil"]

CKey_Index(i) == [key |-> "Index", i |-> i]
CKey_String(s) == [key |-> "String", s |-> s]
CKey_Number(n) == [key |-> "Number", n |-> n]

\* Option<Value>
Some(v) == [some |-> TRUE, v |-> v]
None == [some |-> FALSE]
unwrap_or(o, d) == IF o.some THEN o.v ELSE d

\* f64 `as usize`: a saturating cast that drops the fractional part.
as_usize(n) == IF n < 0 THEN 0 ELSE n \div Scale

\* f64::to_string of a literal used as a number key: the shortest text that
\* reads back as the same float, kept here as the pair <<integer part,
\* fractional units>>, which is one text per float.
to_string(n) == <<n \div Scale, n % Scale>>

\* HashMap::insert / HashMap::remove on a map kept as a function.
map_insert(m, k, v) == [q \in (DOMAIN m) \cup {k} |-> IF q = k THEN v ELSE m[q]]
map_remove(m, k) == [q \in (DOMAIN m) \ {k} |-> m[q]]
EmptyMap == [q \in {} |-> Value_Nil]

CValue_new == [entries |-> EmptyMap, size |-> 0]

get(c, key) == IF key \in DOMAIN c.entries THEN Some(c.entries[key]) ELSE None

\* insert that stores the entry and leaves size alone.
insert_keeps_size(c, key, value) ==
    [entries |-> map_insert(c.entries, key, value), size |-> c.size]

insert(c, key, value) ==
    [entries |-> map_insert(c.entries, key, value),
     size |-> IF key.key = "Index" /\ key.i >= c.size THEN key.i + 1 ELSE c.size]

\* push that appends at the count len() reports instead of at size.
push_at_len(c, value) ==
    LET n == IF c.size > 0 \/ \A k \in DOMAIN c.entries : k.key = "Index"
             THEN c.size ELSE Cardinality(DOMAIN c.entries)
    IN  [entries |-> map_insert(c.entries, CKey_Index(n), value), size |-> n + 1]

push(c, value) ==
    [entries |-> map_insert(c.entries, CKey_Index(c.size), value),
     size |-> c.size + 1]

\* pop that yields the last positional value and lowers size but leaves the
\* entry in the map.
pop_keeps_entry(c) ==
    IF c.size = 0
    THEN [c |-> c, ret |-> None]
    ELSE [c |-> [entries |-> c.entries, size |-> c.size - 1],
          ret |-> get(c, CKey_Index(c.size - 1))]

\* pop returns the collection it leaves and the Option it yields.
pop(c) ==
    IF c.size = 0
    THEN [c |-> c, ret |-> None]
    ELSE [c |-> [entries |-> map_remove(c.entries, CKey_Index(c.size - 1)),
                 size |-> c.size - 1],
          ret |-> get(c, CKey_Index(c.size - 1))]

is_array_like(c) ==
    c.size > 0 \/ \A k \in DOMAIN c.entries : k.key = "Index"

len(c) == IF is_array_like(c) THEN c.size ELSE Cardinality(DOMAIN c.entries)

get_by_string(c, key) == get(c, CKey_String(key))


(***************************************************************************)
(* Results: Result<Value, String> together with the object the call left   *)
(* behind (`self`): the receiver for a method, the interpreter for an      *)
(* evaluation.  Error strings are kept by their fixed part.                *)
(***************************************************************************)
Ok(self, v) == [self |-> self, ok |-> TRUE, val |-> v, err |-> ""]
Err(self, msg) == [self |-> self, ok |-> FALSE, val |-> Value_Nil, err |-> msg]

(***************************************************************************)
(* impl Method for Value                                                   *)
(***************************************************************************)
call_method(self, method, args) ==
    IF self.type = "collection"
    THEN LET c == self.c IN
         CASE method = "push" ->
                IF Len(args) # 1
                THEN Err(self, "push method on array expects 1 argument")
                ELSE Ok(Value_Collection(push(c, args[1])), Value_Nil)
           [] method = "pop" ->
                IF Len(args) # 0
                THEN Err(self, "pop method on array expects no argument")
                ELSE LET p == pop(c) IN
                     Ok(Value_Collection(p.c), unwrap_or(p.ret, Value_Nil))
           [] method = "size" ->
                IF Len(args) # 0
                THEN Err(self, "size method on array expects no argument")
                ELSE Ok(self, Value_Number(len(c) * Scale))
           [] method = "get" ->
                IF Len(args) # 1
                THEN Err(self, "get method expects 1 argument")
                ELSE IF args[1].type = "number"
                THEN Ok(self, unwrap_or(get(c, CKey_Index(as_usize(args[1].n))), Value_Nil))
                ELSE IF args[1].type = "string"
                THEN Ok(self, unwrap_or(get(c, CKey_String(args[1].s)), Value_Nil))
                ELSE Err(self, "collection key must be a number or string")
           [] method = "insert" ->
                IF Len(args) # 2
                THEN Err(self, "insert method expects 2 arguments")
                ELSE IF args[1].type = "number"
                THEN LET idx == as_usize(args[1].n) IN
                     IF is_array_like(c) /\ idx > c.size
                     THEN Err(self, "index is out of bounds")
                     ELSE Ok(Value_Collection(insert(c, CKey_Index(idx), args[2])), Value_Nil)
                ELSE IF args[1].type = "string"
                THEN Ok(Value_Collection(insert(c, CKey_String(args[1].s), args[2])), Value_Nil)
                ELSE Err(self, "insert key must be a number or string")
           [] OTHER -> Err(self, "unknown method for array")
    ELSE IF self.type = "string"
    THEN CASE method = "len" ->
                IF Len(args) # 0
                THEN Err(self, "len method on string expects no arguments")
                ELSE Ok(self, Value_Number(Len(self.s) * Scale))
           [] OTHER -> Err(self, "unknown method for string")
    ELSE Err(self, "cannot call method")

(***************************************************************************)
(* The module registry (stdlib/mod.rs): Module { name, funcs }, a native   *)
(* being named by the Rust function it points to.                          *)
(***************************************************************************)
IO_MOD ==
    [name |-> "io",
     funcs |-> << <<"print", "io::print_nfn">>, <<"println", "io::println_nfn">>,
                  <<"input", "io::input_nfn">>, <<"read_file", "io::read_file_nfn">>,
                  <<"write_file", "io::write_file_nfn">> >>]
MATH_MOD ==
    [name |-> "math",
     funcs |-> << <<"abs", "math::abs_nfn">>, <<"sqrt", "math::sqrt_nfn">>,
                  <<"pow", "math::pow_nfn">>, <<"floor", "math::floor_nfn">>,
                  <<"ceil", "math::ceil_nfn">>, <<"sin", "math::sin_nfn">>,
                  <<"cos", "math::cos_nfn">>, <<"max", "math::max_nfn">>,
                  <<"min", "math::min_nfn">> >>]
STRING_MOD ==
    [name |-> "string",
     funcs |-> << <<"len", "string::len_nfn">>, <<"upper", "string::upper_nfn">>,
                  <<"lower", "string::lower_nfn">>, <<"trim", "string::trim_nfn">>,
                  <<"starts_with", "string::starts_with_nfn">>,
                  <<"ends_with", "string::ends_with_nfn">>,
                  <<"contains", "string::contains_nfn">>,
                  <<"replace", "string::replace_nfn">>, <<"sub", "string::sub_nfn">>,
                  <<"parse", "string::to_number_nfn">>, <<"fmt", "string::format_nfn">> >>]
FS_MOD ==
    [name |-> "fs",
     funcs |-> << <<"read", "fs::read_file_nfn">>, <<"write", "fs::write_file_nfn">> >>]
JSON_MOD ==
    [name |-> "json", funcs |-> << <<"parse", "json::parse_nfn">> >>]

REGISTRY_STD == <<IO_MOD, MATH_MOD, STRING_MOD>>
\* The optional registry is not declared in stdlib/mod.rs: it holds the
\* lazily loaded modules, which are the two stdlib modules left out of
\* REGISTRY_STD.
REGISTRY_OPTIONAL == <<FS_MOD, JSON_MOD>>

\* format!("{}_{}", module.name, name)
realname(module_name, name) == module_name \o "_" \o name

\* The outcome of a native: Result<Value, String>.
NativeOk(v) == [ok |-> TRUE, val |-> v, err |-> ""]
NativeErr(msg) == [ok |-> FALSE, val |-> Value_Nil, err |-> msg]
\* A call whose outcome is decided by the file system, the standard input
\* or floating-point functions that the fixed-point numbers do not carry.
Unrepresented == NativeErr("unrepresented")

abs(n) == IF n < 0 THEN 0 - n ELSE n
floor(n) == (n \div Scale) * Scale
ceil(n) == 0 - floor(0 - n)

\* The natives that start by requiring exactly this many arguments.
Arity ==
    [f \in {"math::sqrt_nfn", "math::sin_nfn", "math::cos_nfn", "string::upper_nfn",
            "string::lower_nfn", "string::trim_nfn"} |-> 1]
      @@ [f \in {"math::pow_nfn", "string::starts_with_nfn", "string::ends_with_nfn",
                 "string::contains_nfn"} |-> 2]
      @@ [f \in {"string::replace_nfn", "string::sub_nfn"} |-> 3]

\* f(&args) for the native function named fptr.
call_native(fptr, args) ==
    CASE fptr \in {"io::print_nfn", "io::println_nfn"} -> NativeOk(Value_Nil)
      [] fptr = "math::abs_nfn" ->
            IF Len(args) # 1 THEN NativeErr("too many arguments")
            ELSE IF args[1].type = "number" THEN NativeOk(Value_Number(abs(args[1].n)))
            ELSE NativeErr("not a number")
      [] fptr = "math::floor_nfn" ->
            IF Len(args) # 1 THEN NativeErr("too many arguments")
            ELSE IF args[1].type = "number" THEN NativeOk(Value_Number(floor(args[1].n)))
            ELSE NativeErr("not a number")
      [] fptr = "math::ceil_nfn" ->
            IF Len(args) # 1 THEN NativeErr("too many arguments")
            ELSE IF args[1].type = "number" THEN NativeOk(Value_Number(ceil(args[1].n)))
            ELSE NativeErr("not a number")
      [] fptr \in {"math::max_nfn", "math::min_nfn"} ->
            IF Len(args) # 2 THEN NativeErr("too many arguments or too little")
            ELSE IF args[1].type = "number" /\ args[2].type = "number"
            THEN NativeOk(Value_Number(
                     IF (fptr = "math::max_nfn") = (args[1].n >= args[2].n)
                     THEN args[1].n ELSE args[2].n))
            ELSE NativeErr("not a number")
      [] fptr = "string::len_nfn" ->
            IF Len(args) # 1 THEN NativeErr("too many arguments or too little")
            ELSE IF args[1].type = "string"
            THEN NativeOk(Value_Number(Len(args[1].s) * Scale))
            ELSE NativeErr("not a string")
      [] fptr \in DOMAIN Arity ->
            IF Len(args) # Arity[fptr] THEN NativeErr("too many arguments or too little")
            ELSE Unrepresented
      [] fptr = "string::to_number_nfn" ->
            IF Len(args) > 1 THEN NativeErr("too many arguments or too little")
            ELSE Unrepresented
      [] fptr = "string::format_nfn" ->
            IF Len(args) = 0 THEN NativeErr("string::format expects at least one argument")
            ELSE Unrepresented
      [] fptr = "io::input_nfn" ->
            IF Len(args) > 1 THEN NativeErr("too many arguments") ELSE Unrepresented
      [] fptr \in {"io::write_file_nfn", "fs::write_file_nfn"} ->
            IF Len(args) > 2 THEN NativeErr("too many arguments") ELSE Unrepresented
      [] fptr \in {"fs::read_file_nfn", "io::read_file_nfn"} ->
            IF Len(args) > 1 THEN NativeErr("too many arguments")
            ELSE IF Len(args) = 0 THEN NativeOk(Value_Nil)
            ELSE IF args[1].type = "string" THEN Unrepresented
            ELSE NativeErr("expected a string value for path argument")
      [] fptr = "json::parse_nfn" ->
            IF Len(args) # 1 THEN NativeErr("too many arguments")
            ELSE IF args[1].type = "string" THEN Unrepresented
            ELSE NativeErr("expected a JSON string")
      [] OTHER -> Unrepresented

(***************************************************************************)
(* The AST (ast.rs, enum Expr and enum CEntry).                            *)
(***************************************************************************)
Expr_Identifier(name) == [tag |-> "Identifier", name |-> name]
Expr_Number(n) == [tag |-> "Number", n |-> n]
Expr_String(s) == [tag |-> "String", s |-> s]
Expr_VarDecl(name, value) == [tag |-> "VarDecl", name |-> name, value |-> value]
Expr_Assignment(name, assignee) == [tag |-> "Assignment", name |-> name, assignee |-> assignee]
Expr_UnaryOp(operand, op) == [tag |-> "UnaryOp", operand |-> operand, op |-> op]
Expr_Block(exprs) == [tag |-> "Block", exprs |-> exprs]
Expr_Collection(entries) == [tag |-> "Collection", entries |-> entries]
Expr_IndexAccess(object, index) == [tag |-> "IndexAccess", object |-> object, index |-> index]
Expr_MethodCall(object, method, args) == [tag |-> "MethodCall", object |-> object, method |-> method, args |-> args]
Expr_FieldAccess(object, field) == [tag |-> "FieldAccess", object |-> object, field |-> field]

CEntry_Indexed(ex) == [entry |-> "Indexed", ex |-> ex]
CEntry_Keyed(k, ex) == [entry |-> "Keyed", k |-> k, ex |-> ex]
CEntry_NumKeyed(n, ex) == [entry |-> "NumKeyed", n |-> n, ex |-> ex]

Block(exprs) == [exprs |-> exprs]
Expr_Call(module, name, args) == [tag |-> "Call", module |-> module, name |-> name, args |-> args]
Expr_Include(module) == [tag |-> "Include", module |-> module]
Expr_BinaryOp(left, right, op) == [tag |-> "BinaryOp", left |-> left, right |-> right, op |-> op]
Expr_If(cond, block, else_block) ==
    [tag |-> "If", cond |-> cond, block |-> block, else_block |-> else_block]

\* Call::signature
signature(call) ==
    IF call.module.some THEN realname(call.module.v, call.name) ELSE call.name


(***************************************************************************)
(* The evaluator (impl Interpreter).  `self` is the interpreter: its       *)
(* `vars` map, and `trace`, the record of what an evaluation did: every    *)
(* entry to and return from evaluate, every write of `vars` and every      *)
(* method dispatch, each with the environment at that moment.              *)
(***************************************************************************)
Log(self, event) == [self EXCEPT !.trace = Append(@, event)]

\* self.vars.insert(name, value), as done by the handler `by`.
vars_insert(self, name, value, by) ==
    [self EXCEPT !.vars = map_insert(@, name, value),
                 !.trace = Append(@, [ev |-> "insert", by |-> by, name |-> name,
                                      value |-> value,
                                      present |-> name \in DOMAIN self.vars])]

RECURSIVE evaluate(_, _)
RECURSIVE eval_args(_, _, _, _)
RECURSIVE collection_entries(_, _, _, _, _)
RECURSIVE block_exprs(_, _, _, _)

\* let mut args = Vec::new(); for a in args { args.push(self.evaluate(a)?); }
eval_args(self, args, i, acc) ==
    IF i > Len(args)
    THEN Ok(self, acc)
    ELSE LET r == evaluate(self, args[i]) IN
         IF ~r.ok THEN r ELSE eval_args(r.self, args, i + 1, Append(acc, r.val))

\* The loop of exec_collection over co.entries, from entry i on, with the
\* collection c built so far and idx positional entries seen.
collection_entries(self, entries, i, c, idx) ==
    IF i > Len(entries)
    THEN Ok(self, Value_Collection(IF idx > 0 THEN [c EXCEPT !.size = idx] ELSE c))
    ELSE LET e == entries[i]
             r == evaluate(self, e.ex)
         IN  IF ~r.ok THEN r
             ELSE CASE e.entry = "Indexed" ->
                         collection_entries(r.self, entries, i + 1,
                                            insert(c, CKey_Index(idx), r.val), idx + 1)
                    [] e.entry = "Keyed" ->
                         collection_entries(r.self, entries, i + 1,
                                            insert(c, CKey_String(e.k), r.val), idx)
                    [] e.entry = "NumKeyed" ->
                         collection_entries(r.self, entries, i + 1,
                                            insert(c, CKey_Number(to_string(e.n)), r.val), idx)

RECURSIVE collection_entries_enumerated(_, _, _, _)
\* The loop of exec_collection had it numbered the entries by their place in
\* the literal: a keyed entry would use up an index.
collection_entries_enumerated(self, entries, i, c) ==
    IF i > Len(entries)
    THEN Ok(self, Value_Collection(c))
    ELSE LET stored(r) ==
                 IF ~r.ok THEN r
                 ELSE collection_entries_enumerated(
                          r.self, entries, i + 1,
                          CASE entries[i].entry = "Indexed" ->
                                   insert(c, CKey_Index(i - 1), r.val)
                            [] entries[i].entry = "Keyed" ->
                                   [insert(c, CKey_String(entries[i].k), r.val)
                                       EXCEPT !.size = i]
                            [] entries[i].entry = "NumKeyed" ->
                                   [insert(c, CKey_Number(to_string(entries[i].n)), r.val)
                                       EXCEPT !.size = i])
         IN  stored(evaluate(self, entries[i].ex))

exec_collection_enumerated(self, co) ==
    collection_entries_enumerated(self, co.entries, 1, CValue_new)

exec_collection(self, co) == collection_entries(self, co.entries, 1, CValue_new, 0)

exec_fa(self, fa) ==
    LET o == evaluate(self, fa.object) IN
    IF ~o.ok THEN o
    ELSE IF o.val.type = "collection"
    THEN LET f == get_by_string(o.val.c, fa.field) IN
         IF f.some THEN Ok(o.self, f.v) ELSE Err(o.self, "undefined field")
    ELSE Err(o.self, "cannot access field on non object")

\* The loop of exec_block over b.exprs, from expression i on.
block_exprs(self, exprs, i, last) ==
    IF i > Len(exprs)
    THEN Ok(self, last)
    ELSE LET r == evaluate(self, exprs[i]) IN
         IF ~r.ok THEN r ELSE block_exprs(r.self, exprs, i + 1, r.val)

\* exec_block that undoes, when an expression of the block fails, what the
\* expressions before it did to the environment.
exec_block_rollback(self, b) ==
    LET r == block_exprs(self, b.exprs, 1, Value_Nil) IN
    IF r.ok THEN r ELSE [r EXCEPT !.self.vars = self.vars]

\* exec_block with a scope of its own: the names declared inside are dropped
\* when the block is left.
exec_block_scoped(self, b) ==
    LET r == block_exprs(self, b.exprs, 1, Value_Nil) IN
    [r EXCEPT !.self.vars =
        [name \in DOMAIN r.self.vars \cap DOMAIN self.vars |-> r.self.vars[name]]]

exec_block(self, b) == block_exprs(self, b.exprs, 1, Value_Nil)

\* exec_idx_access that reports a missing key, as its earlier array version
\* reported an index out of bounds.
exec_idx_access_checked(self, ia) ==
    LET col == evaluate(self, ia.object) IN
    IF ~col.ok THEN col
    ELSE LET idx == evaluate(col.self, ia.index) IN
         IF ~idx.ok THEN idx
         ELSE IF col.val.type = "collection"
         THEN LET key == IF idx.val.type = "number"
                         THEN CKey_Index(as_usize(idx.val.n))
                         ELSE CKey_String(IF idx.val.type = "string" THEN idx.val.s ELSE "")
              IN  IF idx.val.type \notin {"number", "string"}
                  THEN Err(idx.self, "collection index must be a number or string")
                  ELSE IF key \in DOMAIN col.val.c.entries
                  THEN Ok(idx.self, col.val.c.entries[key])
                  ELSE Err(idx.self, "index is out of bounds")
         ELSE Err(idx.self, "cannot index into")

exec_idx_access(self, ia) ==
    LET col == evaluate(self, ia.object) IN
    IF ~col.ok THEN col
    ELSE LET idx == evaluate(col.self, ia.index) IN
         IF ~idx.ok THEN idx
         ELSE IF col.val.type = "collection"
         THEN IF idx.val.type = "number"
              THEN Ok(idx.self, unwrap_or(get(col.val.c, CKey_Index(as_usize(idx.val.n))), Value_Nil))
              ELSE IF idx.val.type = "string"
              THEN Ok(idx.self, unwrap_or(get(col.val.c, CKey_String(idx.val.s)), Value_Nil))
              ELSE Err(idx.self, "collection index must be a number or string")
         ELSE Err(idx.self, "cannot index into")

\* exec_method_call without the write of the receiver back into vars.
exec_method_call_no_write_back(self, mc) ==
    LET a == eval_args(self, mc.args, 1, << >>) IN
    IF ~a.ok THEN a
    ELSE LET o == evaluate(a.self, mc.object) IN
         IF ~o.ok THEN o
         ELSE LET d == Log(o.self, [ev |-> "call_method",
                                    on |-> IF mc.object.tag = "Identifier"
                                           THEN "identifier" ELSE "expression",
                                    name |-> IF mc.object.tag = "Identifier"
                                             THEN mc.object.name ELSE "",
                                    vars |-> o.self.vars, receiver |-> o.val,
                                    method |-> mc.method, args |-> a.val])
                  m == call_method(o.val, mc.method, a.val)
              IN  IF m.ok THEN Ok(d, m.val) ELSE Err(d, m.err)

\* exec_method_call that writes the receiver back whenever the receiver
\* expression is rooted at a variable: x[0], x.f, { x }.
exec_method_call_writes_root(self, mc) ==
    LET a == eval_args(self, mc.args, 1, << >>)
        root == CASE mc.object.tag = "Identifier" -> mc.object.name
                  [] mc.object.tag \in {"IndexAccess", "FieldAccess"}
                       /\ mc.object.object.tag = "Identifier" -> mc.object.object.name
                  [] mc.object.tag = "Block" /\ Len(mc.object.exprs) = 1
                       /\ mc.object.exprs[1].tag = "Identifier" -> mc.object.exprs[1].name
                  [] OTHER -> ""
    IN  IF ~a.ok THEN a
        ELSE LET o == evaluate(a.self, mc.object) IN
             IF ~o.ok THEN o
             ELSE LET d == Log(o.self, [ev |-> "call_method",
                                        on |-> IF mc.object.tag = "Identifier"
                                               THEN "identifier" ELSE "expression",
                                        name |-> root,
                                        vars |-> o.self.vars, receiver |-> o.val,
                                        method |-> mc.method, args |-> a.val])
                      m == call_method(o.val, mc.method, a.val)
                  IN  IF ~m.ok THEN Err(d, m.err)
                      ELSE IF root \in DOMAIN d.vars
                      THEN Ok(vars_insert(d, root, m.self, "exec_method_call"), m.val)
                      ELSE Ok(d, m.val)

\* exec_method_call that takes the receiver out of vars for the call and puts
\* it back only when the method succeeds.
exec_method_call_takes_receiver(self, mc) ==
    LET a == eval_args(self, mc.args, 1, << >>) IN
    IF ~a.ok THEN a
    ELSE IF mc.object.tag = "Identifier"
    THEN LET id == mc.object.name IN
         IF id \in DOMAIN a.self.vars
         THEN LET d == Log(a.self, [ev |-> "call_method", on |-> "identifier", name |-> id,
                                    vars |-> a.self.vars, receiver |-> a.self.vars[id],
                                    method |-> mc.method, args |-> a.val])
                  m == call_method(a.self.vars[id], mc.method, a.val)
              IN  IF ~m.ok THEN Err([d EXCEPT !.vars = map_remove(@, id)], m.err)
                  ELSE Ok(vars_insert(d, id, m.self, "exec_method_call"), m.val)
         ELSE Err(a.self, "undefined variable")
    ELSE LET o == evaluate(a.self, mc.object) IN
         IF ~o.ok THEN o
         ELSE LET d == Log(o.self, [ev |-> "call_method", on |-> "expression",
                                    vars |-> o.self.vars, receiver |-> o.val,
                                    method |-> mc.method, args |-> a.val])
                  m == call_method(o.val, mc.method, a.val)
              IN  IF m.ok THEN Ok(d, m.val) ELSE Err(d, m.err)

\* exec_method_call had variables copied from one another shared one
\* collection: the write-back reaches every variable that held the
\* receiver's value.
exec_method_call_aliased(self, mc) ==
    LET a == eval_args(self, mc.args, 1, << >>) IN
    IF ~a.ok THEN a
    ELSE IF mc.object.tag = "Identifier"
    THEN LET id == mc.object.name IN
         IF id \in DOMAIN a.self.vars
         THEN LET d == Log(a.self, [ev |-> "call_method", on |-> "identifier", name |-> id,
                                    vars |-> a.self.vars, receiver |-> a.self.vars[id],
                                    method |-> mc.method, args |-> a.val])
                  m == call_method(a.self.vars[id], mc.method, a.val)
                  w == vars_insert(d, id, m.self, "exec_method_call")
              IN  IF ~m.ok THEN Err(d, m.err)
                  ELSE Ok([w EXCEPT !.vars = [n \in DOMAIN @ |->
                                                  IF a.self.vars[n] = a.self.vars[id]
                                                  THEN m.self ELSE @[n]]],
                          m.val)
         ELSE Err(a.self, "undefined variable")
    ELSE LET o == evaluate(a.self, mc.object) IN
         IF ~o.ok THEN o
         ELSE LET d == Log(o.self, [ev |-> "call_method", on |-> "expression",
                                    vars |-> o.self.vars, receiver |-> o.val,
                                    method |-> mc.method, args |-> a.val])
                  m == call_method(o.val, mc.method, a.val)
              IN  IF m.ok THEN Ok(d, m.val) ELSE Err(d, m.err)

exec_method_call(self, mc) ==
    LET a == eval_args(self, mc.args, 1, << >>) IN
    IF ~a.ok THEN a
    ELSE IF mc.object.tag = "Identifier"
    THEN LET id == mc.object.name IN
         IF id \in DOMAIN a.self.vars
         THEN LET d == Log(a.self, [ev |-> "call_method", on |-> "identifier", name |-> id,
                                    vars |-> a.self.vars, receiver |-> a.self.vars[id],
                                    method |-> mc.method, args |-> a.val])
                  m == call_method(a.self.vars[id], mc.method, a.val)
              IN  IF ~m.ok THEN Err(d, m.err)
                  ELSE Ok(vars_insert(d, id, m.self, "exec_method_call"), m.val)
         ELSE Err(a.self, "undefined variable")
    ELSE LET o == evaluate(a.self, mc.object) IN
         IF ~o.ok THEN o
         ELSE LET d == Log(o.self, [ev |-> "call_method", on |-> "expression",
                                    vars |-> o.self.vars, receiver |-> o.val,
                                    method |-> mc.method, args |-> a.val])
                  m == call_method(o.val, mc.method, a.val)
              IN  IF m.ok THEN Ok(d, m.val) ELSE Err(d, m.err)

exec_unary_op(self, u) ==
    LET operand == evaluate(self, u.operand) IN
    IF ~operand.ok THEN operand
    ELSE IF u.op = "Sub"
    THEN IF operand.val.type = "number"
         THEN Ok(operand.self, Value_Number(0 - operand.val.n))
         ELSE Err(operand.self, "negate unary operator only supported on numbers")
    ELSE Err(operand.self, "unsupported unary operator")

\* exec_var_decl with the value evaluated before the name is checked.
exec_var_decl_value_first(self, var) ==
    LET value == evaluate(self, var.value) IN
    IF ~value.ok THEN value
    ELSE IF var.name \in DOMAIN self.vars
    THEN Err(value.self, "variable already defined")
    ELSE Ok(vars_insert(value.self, var.name, value.val, "exec_var_decl"), Value_Nil)

exec_var_decl(self, var) ==
    IF var.name \in DOMAIN self.vars
    THEN Err(self, "variable already defined")
    ELSE LET value == evaluate(self, var.value) IN
         IF ~value.ok THEN value
         ELSE Ok(vars_insert(value.self, var.name, value.val, "exec_var_decl"), Value_Nil)

\* exec_assignment as a plain self.vars.insert(name, avalue), with no check
\* that the name is declared.
exec_assignment_unchecked(self, assignment) ==
    LET avalue == evaluate(self, assignment.assignee) IN
    IF ~avalue.ok THEN avalue
    ELSE Ok(vars_insert(avalue.self, assignment.name, avalue.val, "exec_assignment"), Value_Nil)

\* self.vars.entry(name).and_modify(|v| *v = avalue): a write only when the
\* entry exists.
exec_assignment(self, assignment) ==
    IF assignment.name \in DOMAIN self.vars
    THEN LET avalue == evaluate(self, assignment.assignee) IN
         IF ~avalue.ok THEN avalue
         ELSE IF assignment.name \in DOMAIN avalue.self.vars
         THEN Ok(vars_insert(avalue.self, assignment.name, avalue.val, "exec_assignment"), Value_Nil)
         ELSE Ok(avalue.self, Value_Nil)
    ELSE Err(self, "variable not defined")

RECURSIVE insert_funcs(_, _, _)
\* for (name, fptr) in module.funcs { self.natives.insert(realname, *fptr); }
\* from the i-th function on.
insert_funcs(natives, module, i) ==
    IF i > Len(module.funcs)
    THEN natives
    ELSE insert_funcs(map_insert(natives, realname(module.name, module.funcs[i][1]),
                                 module.funcs[i][2]),
                      module, i + 1)

RECURSIVE load_modules(_, _, _)
\* for module in registry { ... } from the i-th module on.
load_modules(natives, registry, i) ==
    IF i > Len(registry)
    THEN natives
    ELSE load_modules(insert_funcs(natives, registry[i], 1), registry, i + 1)

RECURSIVE insert_bare_funcs(_, _, _)
insert_bare_funcs(natives, module, i) ==
    IF i > Len(module.funcs)
    THEN natives
    ELSE insert_bare_funcs(map_insert(natives, module.funcs[i][1], module.funcs[i][2]),
                           module, i + 1)

RECURSIVE load_bare_modules(_, _, _)
load_bare_modules(natives, registry, i) ==
    IF i > Len(registry)
    THEN natives
    ELSE load_bare_modules(insert_bare_funcs(natives, registry[i], 1), registry, i + 1)

\* load_std registering every function under its bare name, as the
\* registry was keyed before signatures.
load_std_bare_names(self) == [self EXCEPT !.natives = load_bare_modules(@, REGISTRY_STD, 1)]

load_std(self) == [self EXCEPT !.natives = load_modules(@, REGISTRY_STD, 1)]

\* The registry and the loaded-modules set, as load_module finds and leaves
\* them.
LoadEvent(self, ev, mod_name, ok) ==
    [ev |-> ev, module |-> mod_name, ok |-> ok,
     natives |-> self.natives, loaded_modules |-> self.loaded_modules]

\* load_module that takes a second include of a module for an error.
load_module_once(self, mod_name) ==
    LET entered == Log(self, LoadEvent(self, "load_module", mod_name, TRUE))
        found == {i \in DOMAIN REGISTRY_OPTIONAL : REGISTRY_OPTIONAL[i].name = mod_name}
    IN  IF mod_name \in self.loaded_modules
        THEN Err(Log(entered, LoadEvent(self, "load_module returns", mod_name, FALSE)),
                 "module already loaded")
        ELSE IF found # {}
        THEN LET module == REGISTRY_OPTIONAL[CHOOSE i \in found : \A j \in found : i <= j]
                 loaded == [entered EXCEPT
                               !.natives = insert_funcs(@, module, 1),
                               !.loaded_modules = @ \cup {mod_name}]
             IN  Ok(Log(loaded, LoadEvent(loaded, "load_module returns", mod_name, TRUE)),
                    Value_Nil)
        ELSE Err(Log(entered, LoadEvent(self, "load_module returns", mod_name, FALSE)),
                 "module not found")

load_module(self, mod_name) ==
    LET entered == Log(self, LoadEvent(self, "load_module", mod_name, TRUE))
        found == {i \in DOMAIN REGISTRY_OPTIONAL : REGISTRY_OPTIONAL[i].name = mod_name}
    IN  IF mod_name \in self.loaded_modules
        THEN Ok(Log(entered, LoadEvent(self, "load_module returns", mod_name, TRUE)),
                Value_Nil)
        ELSE IF found # {}
        THEN LET module == REGISTRY_OPTIONAL[CHOOSE i \in found : \A j \in found : i <= j]
                 loaded == [entered EXCEPT
                               !.natives = insert_funcs(@, module, 1),
                               !.loaded_modules = @ \cup {mod_name}]
             IN  Ok(Log(loaded, LoadEvent(loaded, "load_module returns", mod_name, TRUE)),
                    Value_Nil)
        ELSE Err(Log(entered, LoadEvent(self, "load_module returns", mod_name, FALSE)),
                 "module not found")

\* self.natives.get(key), recorded
natives_get(self, key) ==
    Log(self, [ev |-> "natives.get", key |-> key, found |-> key \in DOMAIN self.natives])

\* f(&args) for the native found under key
invoke(self, key, args) ==
    LET f == self.natives[key]
        called == Log(self, [ev |-> "native", key |-> key, fptr |-> f, args |-> args])
        r == call_native(f, args)
    IN  IF r = Unrepresented
        THEN Err(Log(called, [ev |-> "unrepresented"]), r.err)
        ELSE [self |-> called, ok |-> r.ok, val |-> r.val, err |-> r.err]

\* exec_call as it was before calls could name a module: the function is
\* looked up by its bare name alone.
exec_call_bare_name(self, call) ==
    LET a == eval_args(self, call.args, 1, << >>) IN
    IF ~a.ok THEN a
    ELSE LET by_name == natives_get(a.self, call.name) IN
         IF call.name \in DOMAIN a.self.natives
         THEN invoke(by_name, call.name, a.val)
         ELSE Err(by_name, "undefined function")

\* exec_call that resolves the function first and evaluates the arguments
\* only of a function it has found.
exec_call_lookup_first(self, call) ==
    LET sig == signature(call)
        by_sig == natives_get(self, sig)
        by_name == natives_get(by_sig, call.name)
    IN  IF sig \in DOMAIN self.natives
        THEN LET a == eval_args(by_sig, call.args, 1, << >>) IN
             IF ~a.ok THEN a ELSE invoke(a.self, sig, a.val)
        ELSE IF call.name \in DOMAIN self.natives
        THEN LET a == eval_args(by_name, call.args, 1, << >>) IN
             IF ~a.ok THEN a ELSE invoke(a.self, call.name, a.val)
        ELSE Err(by_name, "undefined function")

exec_call(self, call) ==
    LET a == eval_args(self, call.args, 1, << >>) IN
    IF ~a.ok THEN a
    ELSE LET sig == signature(call)
             by_sig == natives_get(a.self, sig)
         IN  IF sig \in DOMAIN a.self.natives
             THEN invoke(by_sig, sig, a.val)
             ELSE LET by_name == natives_get(by_sig, call.name) IN
                  IF call.name \in DOMAIN a.self.natives
                  THEN invoke(by_name, call.name, a.val)
                  ELSE Err(by_name, "undefined function")

\* The strings of the model in the order of str::partial_cmp.
StringsInOrder == <<"", "a", "j", "k">>
str_rank(s) == CHOOSE i \in DOMAIN StringsInOrder : StringsInOrder[i] = s
cmp(a, b) == IF a < b THEN "Less" ELSE IF a = b THEN "Equal" ELSE "Greater"

\* partial_cmp that orders values of different variants by variant, as a
\* derived PartialOrd would.
partial_cmp_across_variants(self, other) ==
    LET variant(v) == CASE v.type = "number" -> 1 [] v.type = "string" -> 2
                        [] v.type = "bool" -> 3 [] v.type = "collection" -> 4
                        [] OTHER -> 5
    IN  CASE self.type = "number" /\ other.type = "number" -> Some(cmp(self.n, other.n))
          [] self.type = "string" /\ other.type = "string" ->
                Some(cmp(str_rank(self.s), str_rank(other.s)))
          [] self.type = "bool" /\ other.type = "bool" ->
                Some(cmp(IF self.b THEN 1 ELSE 0, IF other.b THEN 1 ELSE 0))
          [] self.type # other.type -> Some(cmp(variant(self), variant(other)))
          [] OTHER -> None

\* impl PartialOrd for Value
partial_cmp(self, other) ==
    CASE self.type = "number" /\ other.type = "number" -> Some(cmp(self.n, other.n))
      [] self.type = "string" /\ other.type = "string" ->
            Some(cmp(str_rank(self.s), str_rank(other.s)))
      [] self.type = "bool" /\ other.type = "bool" ->
            Some(cmp(IF self.b THEN 1 ELSE 0, IF other.b THEN 1 ELSE 0))
      [] OTHER -> None

\* derive(PartialEq) for Value
eq(left, right) == left.type = right.type /\ left = right
\* the provided methods of PartialOrd
lt(left, right) == partial_cmp(left, right) = Some("Less")
gt(left, right) == partial_cmp(left, right) = Some("Greater")
le(left, right) == partial_cmp(left, right) \in {Some("Less"), Some("Equal")}
ge(left, right) == partial_cmp(left, right) \in {Some("Greater"), Some("Equal")}

\* l % r on f64: the remainder has the sign of the dividend
rem(l, r) == IF l < 0 THEN 0 - (abs(l) % abs(r)) ELSE abs(l) % abs(r)

\* exec_binary_op that takes an operand that is not a Number for 0 in
\* arithmetic.
exec_binary_op_coercing(self, b) ==
    LET left == evaluate(self, b.left) IN
    IF ~left.ok THEN left
    ELSE LET right == evaluate(left.self, b.right)
             num(v) == IF v.type = "number" THEN v ELSE Value_Number(0)
             l == IF b.op \in {"Add", "Sub", "Mul", "Div", "Mod"}
                  THEN num(left.val) ELSE left.val
             r == IF b.op \in {"Add", "Sub", "Mul", "Div", "Mod"}
                  THEN num(right.val) ELSE right.val
             s == right.self
         IN  IF ~right.ok THEN right
             ELSE CASE b.op = "DblEquals" -> Ok(s, Value_Bool(eq(l, r)))
                    [] b.op = "Lt" -> Ok(s, Value_Bool(lt(l, r)))
                    [] b.op = "Gt" -> Ok(s, Value_Bool(gt(l, r)))
                    [] b.op = "Lte" -> Ok(s, Value_Bool(le(l, r)))
                    [] b.op = "Gte" -> Ok(s, Value_Bool(ge(l, r)))
                    [] b.op = "Neq" -> Ok(s, Value_Bool(~eq(l, r)))
                    [] b.op \in {"Add", "Sub", "Mul", "Div", "Mod"} ->
                         IF l.type = "number" /\ r.type = "number"
                         THEN CASE b.op = "Add" -> Ok(s, Value_Number(l.n + r.n))
                                [] b.op = "Sub" -> Ok(s, Value_Number(l.n - r.n))
                                [] b.op = "Mul" ->
                                     IF (l.n * r.n) % Scale = 0
                                     THEN Ok(s, Value_Number((l.n * r.n) \div Scale))
                                     ELSE Err(Log(s, [ev |-> "unrepresented"]), "unrepresented")
                                [] b.op = "Div" ->
                                     IF r.n = 0 THEN Err(s, "division by zero")
                                     ELSE IF rem(l.n * Scale, r.n) = 0
                                     THEN Ok(s, Value_Number(
                                              (IF (l.n < 0) = (r.n < 0) THEN 1 ELSE 0 - 1)
                                              * ((abs(l.n) * Scale) \div abs(r.n))))
                                     ELSE Err(Log(s, [ev |-> "unrepresented"]), "unrepresented")
                                [] b.op = "Mod" ->
                                     IF r.n = 0 THEN Err(s, "modulo by zero")
                                     ELSE Ok(s, Value_Number(rem(l.n, r.n)))
                         ELSE Err(s, "arithmetic operations can only be performed on numbers")
                    [] OTHER -> Err(s, "unsupported binary operator")

exec_binary_op(self, b) ==
    LET left == evaluate(self, b.left) IN
    IF ~left.ok THEN left
    ELSE LET right == evaluate(left.self, b.right)
             l == left.val
             r == right.val
             s == right.self
         IN  IF ~right.ok THEN right
             ELSE CASE b.op = "DblEquals" -> Ok(s, Value_Bool(eq(l, r)))
                    [] b.op = "Lt" -> Ok(s, Value_Bool(lt(l, r)))
                    [] b.op = "Gt" -> Ok(s, Value_Bool(gt(l, r)))
                    [] b.op = "Lte" -> Ok(s, Value_Bool(le(l, r)))
                    [] b.op = "Gte" -> Ok(s, Value_Bool(ge(l, r)))
                    [] b.op = "Neq" -> Ok(s, Value_Bool(~eq(l, r)))
                    [] b.op \in {"Add", "Sub", "Mul", "Div", "Mod"} ->
                         IF l.type = "number" /\ r.type = "number"
                         THEN CASE b.op = "Add" -> Ok(s, Value_Number(l.n + r.n))
                                [] b.op = "Sub" -> Ok(s, Value_Number(l.n - r.n))
                                [] b.op = "Mul" ->
                                     IF (l.n * r.n) % Scale = 0
                                     THEN Ok(s, Value_Number((l.n * r.n) \div Scale))
                                     ELSE Err(Log(s, [ev |-> "unrepresented"]), "unrepresented")
                                [] b.op = "Div" ->
                                     IF r.n = 0 THEN Err(s, "division by zero")
                                     ELSE IF rem(l.n * Scale, r.n) = 0
                                     THEN Ok(s, Value_Number(
                                              (IF (l.n < 0) = (r.n < 0) THEN 1 ELSE 0 - 1)
                                              * ((abs(l.n) * Scale) \div abs(r.n))))
                                     ELSE Err(Log(s, [ev |-> "unrepresented"]), "unrepresented")
                                [] b.op = "Mod" ->
                                     IF r.n = 0 THEN Err(s, "modulo by zero")
                                     ELSE Ok(s, Value_Number(rem(l.n, r.n)))
                         ELSE Err(s, "arithmetic operations can only be performed on numbers")
                    [] OTHER -> Err(s, "unsupported binary operator")

\* is_truthy with the number 0 and the empty string falsy as well.
is_truthy_zero_falsy(v) ==
    CASE v.type = "bool" -> v.b
      [] v.type = "nil" -> FALSE
      [] v.type = "collection" -> DOMAIN v.c.entries # {}
      [] v.type = "number" -> v.n # 0
      [] v.type = "string" -> v.s # ""
      [] OTHER -> TRUE

\* Value::is_truthy
is_truthy(v) ==
    CASE v.type = "bool" -> v.b
      [] v.type = "nil" -> FALSE
      [] v.type = "collection" -> DOMAIN v.c.entries # {}
      [] OTHER -> TRUE

exec_if(self, i) ==
    LET cond == evaluate(self, i.cond) IN
    IF ~cond.ok THEN cond
    ELSE IF is_truthy(cond.val)
    THEN exec_block(cond.self, i.block)
    ELSE IF i.else_block.some
    THEN exec_block(cond.self, i.else_block.v)
    ELSE Ok(cond.self, Value_Nil)

eval_identifier(self, name) ==
    IF name \in DOMAIN self.vars
    THEN Ok(self, self.vars[name])
    ELSE Err(self, "undefined variable or reference")

dispatch(self, expr) ==
    CASE expr.tag = "Number" -> Ok(self, Value_Number(expr.n))
      [] expr.tag = "String" -> Ok(self, Value_String(expr.s))
      [] expr.tag = "Identifier" -> eval_identifier(self, expr.name)
      [] expr.tag = "Collection" -> exec_collection(self, expr)
      [] expr.tag = "IndexAccess" -> exec_idx_access(self, expr)
      [] expr.tag = "MethodCall" -> exec_method_call(self, expr)
      [] expr.tag = "VarDecl" -> exec_var_decl(self, expr)
      [] expr.tag = "Assignment" -> exec_assignment(self, expr)
      [] expr.tag = "UnaryOp" -> exec_unary_op(self, expr)
      [] expr.tag = "Block" -> exec_block(self, expr)
      [] expr.tag = "FieldAccess" -> exec_fa(self, expr)
      [] expr.tag = "Call" -> exec_call(self, expr)
      [] expr.tag = "BinaryOp" -> exec_binary_op(self, expr)
      [] expr.tag = "If" -> exec_if(self, expr)
      [] expr.tag = "Include" -> load_module(self, expr.module)

evaluate(self, expr) ==
    LET returned(r) ==
            [r EXCEPT !.self = Log(@, [ev |-> "return", expr |-> expr, vars |-> r.self.vars,
                                       ok |-> r.ok, val |-> r.val, err |-> r.err])]
    IN  returned(dispatch(Log(self, [ev |-> "evaluate", expr |-> expr, vars |-> self.vars]),
                          expr))


(***************************************************************************)
(* The expressions fed to the interpreter.  x is the variable the method   *)
(* calls work on; y is a second variable that sub-expressions declare and  *)
(* assign.                                                                 *)
(***************************************************************************)
Lit(n) == Expr_Number(n * Scale)
Elems == {Lit(1), Lit(2)}
X == Expr_Identifier("x")
Y == Expr_Identifier("y")
\* -1, which `as usize` takes to 0
MinusOne == Expr_UnaryOp(Lit(1), "Sub")
InsertKeys == {Lit(0), Lit(1), Expr_Number(OneAndFraction), MinusOne, Expr_String("k")}
KeyExprs == InsertKeys \cup {Expr_String("j"), Expr_Collection(<< >>)}

Literals ==
    { Expr_Collection(<< >>),
      Expr_Collection(<<CEntry_Indexed(Lit(1)), CEntry_Indexed(Lit(2))>>),
      Expr_Collection(<<CEntry_Keyed("k", Lit(1))>>),
      Expr_Collection(<<CEntry_Keyed("k", Lit(1)), CEntry_Indexed(Lit(2))>>),
      Expr_Collection(<<CEntry_NumKeyed(One, Lit(2))>>) }

\* sub-expressions with an effect on y, and on the variable being declared
DeclY == Expr_VarDecl("y", Lit(1))
AssignY == Expr_Assignment("y", Lit(2))

DeclValues(n) ==
    IF n = "x"
    THEN Elems \cup Literals
               \cup {Y, DeclY, AssignY, Expr_VarDecl("x", Lit(1)),
                     Expr_Block(<<Expr_VarDecl("x", Lit(1)), Lit(2)>>)}
    ELSE {Lit(1), Expr_VarDecl("y", Lit(2)), Expr_VarDecl("x", Lit(1))}
AssignValues(n) ==
    IF n = "x"
    THEN Elems \cup Literals \cup {Y, DeclY, AssignY}
    ELSE {Lit(2), Expr_VarDecl("x", Lit(1)), Expr_Assignment("x", Lit(1))}

\* Receivers of a method call that are not a bare identifier.
Transients ==
    { Expr_Collection(<<CEntry_Indexed(Lit(1))>>),
      Expr_Block(<<X>>),
      Expr_IndexAccess(X, Lit(0)) }
Receivers == {X} \cup Transients

ArgLists(method) ==
    CASE method = "push" -> {<<a>> : a \in Elems \cup {DeclY, AssignY}} \cup {<< >>}
      [] method = "insert" -> {<<k, a>> : k \in InsertKeys, a \in Elems}
                                  \cup {<<Lit(1)>>, <<Expr_Collection(<< >>), Lit(1)>>}
      [] method = "get" -> {<<k>> : k \in KeyExprs} \cup {<< >>}
      [] OTHER -> {<< >>, <<Lit(1)>>}
Methods == {"push", "pop", "size", "get", "insert", "len", "clear"}

(***************************************************************************)
(* The lexer (src/src/lexer.rs).  A source text is a sequence of           *)
(* characters; the cursor `pos` counts characters, as chars().nth(pos)     *)
(* does, while a lexeme is cut out of the text by byte offsets             *)
(* (&source[start..pos]), which panics when an offset is past the end or   *)
(* inside a character of more than one byte.                               *)
(***************************************************************************)
\* a letter of two bytes in UTF-8
EAcute == "é"
is_whitespace(c) == c = " "
is_alphabetic(c) ==
    c \in {"a", "b", "c", "d", "e", "f", "i", "l", "m", "n", "s", "t", "u", "v", "x", "y", "z",
           EAcute}
is_numeric(c) == c \in {"0", "1", "2"}
is_alphanumeric(c) == is_alphabetic(c) \/ is_numeric(c)
len_utf8(c) == IF c = EAcute THEN 2 ELSE 1

make_token(token_type, lexeme) == [token_type |-> token_type, lexeme |-> lexeme]

\* keywords.insert("val", TokenType::Val); ... in Lexer::new
keywords == [val |-> "Val", if |-> "If", else |-> "Else"]

Lexer_new(source) == [source |-> source, pos |-> 0]

\* self.source.chars().nth(n)
nth(source, n) == IF n + 1 \in DOMAIN source THEN Some(source[n + 1]) ELSE None
current(self) == nth(self.source, self.pos)
peek(self) == nth(self.source, self.pos + 1)
advance(self) == [self EXCEPT !.pos = @ + 1]

RECURSIVE byte_offset(_, _)
\* the byte offset at which the character after the first n starts
byte_offset(source, n) ==
    IF n = 0 THEN 0 ELSE byte_offset(source, n - 1) + len_utf8(source[n])

RECURSIVE str_to_string(_)
\* the String made of a sequence of characters
str_to_string(chars) ==
    IF chars = << >> THEN "" ELSE chars[1] \o str_to_string(Tail(chars))

\* &source[start..end].to_string(): the characters between two byte offsets
\* that are character boundaries of the text, a panic otherwise
slice(source, start, end) ==
    LET boundary(b) == \E n \in 0..Len(source) : byte_offset(source, n) = b
        chars_before(b) == CHOOSE n \in 0..Len(source) : byte_offset(source, n) = b
    IN  IF start <= end /\ boundary(start) /\ boundary(end)
        THEN [panic |-> FALSE,
              s |-> str_to_string(SubSeq(source, chars_before(start) + 1, chars_before(end)))]
        ELSE [panic |-> TRUE, s |-> ""]

\* What a call of next() comes to: the lexer after it, and the token
\* returned, None at the end of input, or a panic.
Lexed(self, token) == [lexer |-> self, token |-> token, panic |-> FALSE]
Panicked(self) == [lexer |-> self, token |-> None, panic |-> TRUE]

RECURSIVE skip_whitespace(_)
\* while let Some(c) = self.current() { if c.is_whitespace() { advance } else { break } }
skip_whitespace(self) ==
    IF current(self).some /\ is_whitespace(current(self).v)
    THEN skip_whitespace(advance(self))
    ELSE self

RECURSIVE until_opening(_, _)
\* the loop of process_string: up to the closing quote or the end of input
until_opening(self, opening) ==
    IF current(self).some /\ current(self).v # opening
    THEN until_opening(advance(self), opening)
    ELSE self

process_string(self) ==
    LET opening == current(self).v
        start == self.pos + 1
        at_end == until_opening(advance(self), opening)
        strval == slice(self.source, start, at_end.pos)
        closed == IF current(at_end) = Some(opening) THEN advance(at_end) ELSE at_end
    IN  IF strval.panic THEN Panicked(at_end)
        ELSE Lexed(closed, Some(make_token("String", strval.s)))

RECURSIVE number_chars(_, _)
\* the loop of process_number: digits, and one '.' that a digit follows
number_chars(self, float) ==
    IF ~current(self).some THEN self
    ELSE IF is_numeric(current(self).v) THEN number_chars(advance(self), float)
    ELSE IF /\ current(self).v = "."
            /\ ~float
            /\ peek(self).some
            /\ is_numeric(peek(self).v)
    THEN number_chars(advance(self), TRUE)
    ELSE self

process_number(self) ==
    LET at_end == number_chars(self, FALSE)
        lexeme == slice(self.source, self.pos, at_end.pos)
    IN  IF lexeme.panic THEN Panicked(at_end)
        ELSE Lexed(at_end, Some(make_token("Number", lexeme.s)))

RECURSIVE identifier_chars(_)
identifier_chars(self) ==
    IF current(self).some /\ (is_alphanumeric(current(self).v) \/ current(self).v = "_")
    THEN identifier_chars(advance(self))
    ELSE self

process_identifier(self) ==
    LET at_end == identifier_chars(self)
        ident == slice(self.source, self.pos, at_end.pos)
    IN  IF ident.panic THEN Panicked(at_end)
        ELSE IF ident.s \in DOMAIN keywords
        THEN Lexed(at_end, Some(make_token(keywords[ident.s], ident.s)))
        ELSE Lexed(at_end, Some(make_token("Ident", ident.s)))

\* c, or c followed by '=' (or by ':' for "::"), as one token
one_or_two(self, second, two, one) ==
    IF nth(self.source, self.pos + 1) = Some(second)
    THEN Lexed(advance(advance(self)), Some(make_token(two, current(self).v \o second)))
    ELSE Lexed(advance(self), Some(make_token(one, current(self).v)))

Single ==
    [c \in {";", "(", ")", "{", "}", ",", "+", "-", "*", "/", "%"} |->
        CASE c = ";" -> "Semi" [] c = "(" -> "LParen" [] c = ")" -> "RParen"
          [] c = "{" -> "LBrace" [] c = "}" -> "RBrace" [] c = "," -> "Comma"
          [] c = "+" -> "Add" [] c = "-" -> "Sub" [] c = "*" -> "Mul"
          [] c = "/" -> "Div" [] c = "%" -> "Mod"]

RECURSIVE next(_)
next(lexer) ==
    LET self == skip_whitespace(lexer)
        c == current(self).v
    IN  IF ~current(self).some THEN Lexed(self, None)
        ELSE IF is_alphabetic(c) \/ c = "_" THEN process_identifier(self)
        ELSE IF is_numeric(c) THEN process_number(self)
        ELSE IF c = "\"" \/ c = "'" THEN process_string(self)
        ELSE IF c \in DOMAIN Single
        THEN Lexed(advance(self), Some(make_token(Single[c], c)))
        ELSE IF c = ":" THEN one_or_two(self, ":", "DblColon", "Colon")
        ELSE IF c = "=" THEN one_or_two(self, "=", "DblEquals", "Equals")
        ELSE IF c = "<" THEN one_or_two(self, "=", "Lte", "Lt")
        ELSE IF c = ">" THEN one_or_two(self, "=", "Gte", "Gt")
        ELSE IF c = "!" /\ nth(self.source, self.pos + 1) = Some("=")
        THEN Lexed(advance(advance(self)), Some(make_token("Neq", "!=")))
        ELSE next(advance(self))

(***************************************************************************)
(* The parser (src/src/parser.rs): recursive descent over the tokens that  *)
(* the lexer hands out one at a time.  The parser is kept here as the      *)
(* sequence of the tokens next() returns and the place i of `current` in   *)
(* it; past the last token `current` is None, which check() takes for Eof. *)
(* Each function returns Ok with the parser after it and the expression,   *)
(* or Err with the message.                                                *)
(***************************************************************************)
Parser_new(tokens) == [tokens |-> tokens, i |-> 1]
current_token(self) ==
    IF self.i \in DOMAIN self.tokens THEN Some(self.tokens[self.i]) ELSE None
\* self.current = self.lexer.next()
Parser_advance(self) == [self EXCEPT !.i = @ + 1]

\* r?: the rest is run on an Ok, an Err is returned as it is
Try(r, rest(_)) == IF r.ok THEN rest(r) ELSE r

check(self, target_type) ==
    IF current_token(self).some
    THEN current_token(self).v.token_type = target_type
    ELSE target_type = "Eof"

consume(self, expect) ==
    IF check(self, expect)
    THEN IF current_token(self).some
         THEN Ok(Parser_advance(self), current_token(self).v)
         ELSE Err(Parser_advance(self), "unexpected eof")
    ELSE Err(self, "expected " \o expect)

precedence(token_type) ==
    CASE token_type \in {"DblEquals", "Lt", "Gt", "Lte", "Gte", "Neq"} -> 1
      [] token_type \in {"Add", "Sub"} -> 2
      [] token_type \in {"Mul", "Div", "Mod"} -> 3
      [] OTHER -> 0

is_binop(token_type) ==
    token_type \in {"Add", "Sub", "Mul", "Div", "Mod", "DblEquals", "Lt", "Gt", "Lte",
                    "Gte", "Neq"}

\* num.parse::<f64>() of the numerals of the texts parsed here, in units of
\* 1/Scale
parse_f64(num) ==
    CASE num = "0" -> 0
      [] num = "1" -> 1 * Scale
      [] num = "2" -> 2 * Scale

RECURSIVE parse_bin_expr(_, _)
RECURSIVE bin_ops(_, _, _)
RECURSIVE parse_prim(_)
RECURSIVE parse_postfix(_)
RECURSIVE postfixes(_, _)
RECURSIVE parse_collection(_)
RECURSIVE collection_loop(_, _)
RECURSIVE parse_if(_)
RECURSIVE parse_block(_)
RECURSIVE block_loop(_, _)
RECURSIVE parse_args(_)
RECURSIVE args_loop(_, _)
RECURSIVE paren_args(_)

parse_expr(self) == parse_bin_expr(self, 0)

RECURSIVE bin_ops_right_assoc(_, _, _)
\* The loop of parse_bin_expr had it parsed the right operand at the
\* operator's own precedence: operators of one tier would nest to the right.
bin_ops_right_assoc(self, left, min_prec) ==
    LET t == current_token(self) IN
    IF ~t.some THEN Ok(self, left)
    ELSE IF ~is_binop(t.v.token_type) THEN Ok(self, left)
    ELSE IF precedence(t.v.token_type) < min_prec THEN Ok(self, left)
    ELSE Try(parse_bin_expr(Parser_advance(self), precedence(t.v.token_type)),
             LAMBDA right :
                 bin_ops_right_assoc(right.self,
                                     Expr_BinaryOp(left, right.val, t.v.token_type),
                                     min_prec))

\* The loop of parse_bin_expr, with the tree built so far as left.
bin_ops(self, left, min_prec) ==
    LET t == current_token(self) IN
    IF ~t.some THEN Ok(self, left)
    ELSE IF ~is_binop(t.v.token_type) THEN Ok(self, left)
    ELSE IF precedence(t.v.token_type) < min_prec THEN Ok(self, left)
    ELSE Try(parse_bin_expr(Parser_advance(self), precedence(t.v.token_type) + 1),
             LAMBDA right :
                 bin_ops(right.self, Expr_BinaryOp(left, right.val, t.v.token_type),
                         min_prec))

parse_bin_expr(self, min_prec) ==
    Try(parse_postfix(self), LAMBDA left : bin_ops(left.self, left.val, min_prec))

parse_include(self) ==
    Try(consume(self, "Include"),
        LAMBDA kw :
            IF check(kw.self, "Ident")
            THEN Ok(Parser_advance(kw.self),
                    Expr_Include(current_token(kw.self).v.lexeme))
            ELSE Err(kw.self, "expected identifier after 'include'"))

\* ( args ), the same in parse_call, parse_mod_call and a method call
paren_args(self) ==
    Try(consume(self, "LParen"),
        LAMBDA open :
            Try(IF check(open.self, "RParen") THEN Ok(open.self, << >>)
                ELSE parse_args(open.self),
                LAMBDA args :
                    Try(consume(args.self, "RParen"),
                        LAMBDA close : Ok(close.self, args.val))))

\* The loop of parse_postfix, with the expression built so far as e.
postfixes(self, e) ==
    IF check(self, "LBracket")
    THEN Try(consume(self, "LBracket"),
             LAMBDA open :
                 Try(parse_expr(open.self),
                     LAMBDA idx :
                         Try(consume(idx.self, "RBracket"),
                             LAMBDA close :
                                 postfixes(close.self, Expr_IndexAccess(e, idx.val)))))
    ELSE IF check(self, "Dot")
    THEN Try(consume(self, "Dot"),
             LAMBDA dot :
                 Try(consume(dot.self, "Ident"),
                     LAMBDA meth :
                         IF check(meth.self, "LParen")
                         THEN Try(paren_args(meth.self),
                                  LAMBDA args :
                                      postfixes(args.self,
                                                Expr_MethodCall(e, meth.val.lexeme,
                                                                args.val)))
                         ELSE postfixes(meth.self,
                                        Expr_FieldAccess(e, meth.val.lexeme))))
    ELSE Ok(self, e)

parse_postfix(self) ==
    Try(parse_prim(self), LAMBDA e : postfixes(e.self, e.val))

parse_unary(self) ==
    Try(parse_postfix(Parser_advance(self)),
        LAMBDA operand :
            Ok(operand.self, Expr_UnaryOp(operand.val, current_token(self).v.token_type)))

parse_grouped(self) ==
    Try(consume(self, "LParen"),
        LAMBDA open :
            Try(parse_bin_expr(open.self, 0),
                LAMBDA e :
                    Try(consume(e.self, "RParen"), LAMBDA close : Ok(close.self, e.val))))

\* The loop of parse_collection, with the entries parsed so far.
collection_loop(self, entries) ==
    LET \* after an entry: a comma, the closing bracket, or an error
        separated(entry) ==
            IF ~entry.ok THEN entry
            ELSE IF check(entry.self, "Comma")
            THEN IF check(Parser_advance(entry.self), "RBracket")
                 THEN Ok(Parser_advance(entry.self), Append(entries, entry.val))
                 ELSE collection_loop(Parser_advance(entry.self),
                                      Append(entries, entry.val))
            ELSE IF check(entry.self, "RBracket")
            THEN Ok(entry.self, Append(entries, entry.val))
            ELSE Err(entry.self, "expected ',' or ']' to terminate collection definition.")
        keyed(first) ==
            Try(parse_expr(Parser_advance(first.self)),
                LAMBDA value :
                    IF first.val.tag = "String"
                    THEN Ok(value.self, CEntry_Keyed(first.val.s, value.val))
                    ELSE IF first.val.tag = "Number"
                    THEN Ok(value.self, CEntry_NumKeyed(first.val.n, value.val))
                    ELSE Err(value.self,
                             "invalid key usage type for collection structure entry."))
    IN  IF check(self, "Ident")
        THEN IF check(Parser_advance(self), "Equals")
             THEN separated(Try(parse_expr(Parser_advance(Parser_advance(self))),
                                LAMBDA val :
                                    Ok(val.self,
                                       CEntry_Keyed(current_token(self).v.lexeme, val.val))))
             ELSE separated(Ok(Parser_advance(self),
                               CEntry_Indexed(Expr_Identifier(current_token(self).v.lexeme))))
        ELSE separated(Try(parse_expr(self),
                           LAMBDA first :
                               IF check(first.self, "Equals")
                               THEN keyed(first)
                               ELSE Ok(first.self, CEntry_Indexed(first.val))))

parse_collection(self) ==
    Try(consume(self, "LBracket"),
        LAMBDA open :
            IF check(open.self, "RBracket")
            THEN Ok(Parser_advance(open.self), Expr_Collection(<< >>))
            ELSE Try(collection_loop(open.self, << >>),
                     LAMBDA entries :
                         Try(consume(entries.self, "RBracket"),
                             LAMBDA close : Ok(close.self, Expr_Collection(entries.val)))))

\* The loop of parse_block, with the expressions parsed so far.
block_loop(self, exprs) ==
    IF check(self, "RBrace") \/ check(self, "Eof")
    THEN Ok(self, exprs)
    ELSE Try(parse_expr(self),
             LAMBDA e :
                 block_loop(IF check(e.self, "Semi") THEN Parser_advance(e.self) ELSE e.self,
                            Append(exprs, e.val)))

parse_block(self) ==
    Try(consume(self, "LBrace"),
        LAMBDA open :
            Try(block_loop(open.self, << >>),
                LAMBDA exprs :
                    Try(consume(exprs.self, "RBrace"),
                        LAMBDA close : Ok(close.self, Block(exprs.val)))))

parse_if(self) ==
    Try(consume(self, "If"),
        LAMBDA kw :
            Try(parse_expr(kw.self),
                LAMBDA cond :
                    Try(parse_block(cond.self),
                        LAMBDA block :
                            IF ~check(block.self, "Else")
                            THEN Ok(block.self, Expr_If(cond.val, block.val, None))
                            ELSE IF check(Parser_advance(block.self), "If")
                            THEN Try(parse_if(Parser_advance(block.self)),
                                     LAMBDA elif :
                                         Ok(elif.self,
                                            Expr_If(cond.val, block.val,
                                                    Some(Block(<<elif.val>>)))))
                            ELSE Try(parse_block(Parser_advance(block.self)),
                                     LAMBDA else_block :
                                         Ok(else_block.self,
                                            Expr_If(cond.val, block.val,
                                                    Some(else_block.val)))))))

parse_call(self, name) ==
    Try(paren_args(self), LAMBDA args : Ok(args.self, Expr_Call(None, name, args.val)))

parse_mod_call(self, module, name) ==
    Try(paren_args(self),
        LAMBDA args : Ok(args.self, Expr_Call(Some(module), name, args.val)))

parse_assignment(self, name) ==
    Try(consume(self, "Equals"),
        LAMBDA equals :
            Try(parse_bin_expr(equals.self, 0),
                LAMBDA assignee : Ok(assignee.self, Expr_Assignment(name, assignee.val))))

parse_identifier(self) ==
    LET name == current_token(self).v.lexeme
        after == Parser_advance(self)
    IN  IF check(after, "DblColon")
        THEN Try(consume(Parser_advance(after), "Ident"),
                 LAMBDA fn_name :
                     IF check(fn_name.self, "LParen")
                     THEN parse_mod_call(fn_name.self, name, fn_name.val.lexeme)
                     ELSE Ok(fn_name.self,
                             Expr_Identifier(name \o "::" \o fn_name.val.lexeme)))
        ELSE IF check(after, "LParen") THEN parse_call(after, name)
        ELSE IF check(after, "Equals") THEN parse_assignment(after, name)
        ELSE Ok(after, Expr_Identifier(name))

parse_var_decl(self) ==
    Try(consume(self, "Val"),
        LAMBDA kw :
            Try(consume(kw.self, "Ident"),
                LAMBDA name :
                    Try(consume(name.self, "Equals"),
                        LAMBDA equals :
                            Try(parse_expr(equals.self),
                                LAMBDA value :
                                    Ok(value.self,
                                       Expr_VarDecl(name.val.lexeme, value.val))))))

\* The loop of parse_args, with the arguments parsed so far.
args_loop(self, args) ==
    IF ~check(self, "Comma") THEN Ok(self, args)
    ELSE IF check(Parser_advance(self), "RParen") THEN Ok(Parser_advance(self), args)
    ELSE Try(parse_bin_expr(Parser_advance(self), 0),
             LAMBDA arg : args_loop(arg.self, Append(args, arg.val)))

parse_args(self) ==
    Try(parse_bin_expr(self, 0), LAMBDA arg : args_loop(arg.self, <<arg.val>>))

parse_number(self) ==
    Ok(Parser_advance(self), Expr_Number(parse_f64(current_token(self).v.lexeme)))

parse_string(self) ==
    Ok(Parser_advance(self), Expr_String(current_token(self).v.lexeme))

parse_prim(self) ==
    LET t == current_token(self) IN
    IF ~t.some THEN Err(self, "unexpected eof")
    ELSE CASE t.v.token_type = "Include" -> parse_include(self)
           [] t.v.token_type = "Sub" -> parse_unary(self)
           [] t.v.token_type = "Val" -> parse_var_decl(self)
           [] t.v.token_type = "Ident" -> parse_identifier(self)
           [] t.v.token_type = "String" -> parse_string(self)
           [] t.v.token_type = "Number" -> parse_number(self)
           [] t.v.token_type = "LParen" -> parse_grouped(self)
           [] t.v.token_type = "LBracket" -> parse_collection(self)
           [] t.v.token_type = "LBrace" ->
                  Try(parse_block(self), LAMBDA b : Ok(b.self, Expr_Block(b.val.exprs)))
           [] t.v.token_type = "If" -> parse_if(self)
           [] OTHER -> Err(self, "unexpected token " \o t.v.token_type)

RECURSIVE exprs_loop(_, _)
\* The loop of parse, with the expressions parsed so far.
exprs_loop(self, exprs) ==
    IF check(self, "Eof") THEN Ok(self, exprs)
    ELSE Try(parse_expr(self),
             LAMBDA e :
                 exprs_loop(IF check(e.self, "Semi") THEN Parser_advance(e.self) ELSE e.self,
                            Append(exprs, e.val)))

parse(self) == exprs_loop(self, << >>)

(***************************************************************************)
(* The state machine: one interpreter in the loop of run_repl (main.rs):   *)
(* a line is read, execute evaluates its expression against the            *)
(* interpreter, and the loop returns to the prompt.                        *)
(***************************************************************************)
VARIABLES interpreter, pc, code, expr, pre, result, trace, included, lexer, lexed, parsed

vars == <<interpreter, pc, code, expr, pre, result, trace, included, lexer, lexed, parsed>>

Interpreter_new ==
    load_std([natives |-> EmptyMap, vars |-> EmptyMap, loaded_modules |-> {}])

\* The interpreter at the start of an evaluation, with nothing recorded yet.
Start(i) ==
    [natives |-> i.natives, vars |-> i.vars, loaded_modules |-> i.loaded_modules,
     trace |-> << >>]

NoExpr == [tag |-> "none"]
NoResult == [ok |-> TRUE, val |-> Value_Nil, err |-> ""]
\* no call of the lexer's next() yet, and no source text parsed yet
NoLexed == [token |-> None, panic |-> FALSE, calls |-> 0]
NoParsed == [source |-> << >>, tokens |-> << >>, ok |-> TRUE, exprs |-> << >>, err |-> ""]

RECURSIVE Sizes(_)
\* every `size` inside a value
Sizes(v) ==
    IF v.type = "collection"
    THEN {v.c.size} \cup UNION {Sizes(v.c.entries[k]) : k \in DOMAIN v.c.entries}
    ELSE {}
WithinBounds(i) == \A n \in DOMAIN i.vars : \A z \in Sizes(i.vars[n]) : z <= MaxSize

Init ==
    /\ interpreter = Interpreter_new
    /\ pc = "prompt"
    /\ code = << >>
    /\ included = {}
    /\ expr = NoExpr
    /\ pre = Interpreter_new
    /\ result = NoResult
    /\ trace = << >>
    /\ lexer = Lexer_new(<< >>)
    /\ lexed = NoLexed
    /\ parsed = NoParsed

RECURSIVE for_exprs_continue(_, _, _, _)
\* The loop of execute with `continue` for `break`: an error is reported and
\* the next expression is evaluated.
for_exprs_continue(self, exprs, i, last) ==
    IF i > Len(exprs)
    THEN [self |-> self, last |-> last, at |-> i - 1]
    ELSE LET matched(r) ==
                 for_exprs_continue(IF ~r.ok
                                    THEN Log(r.self, [ev |-> "runtime error", err |-> r.err])
                                    ELSE IF ~eq(r.val, Value_Nil)
                                    THEN Log(r.self, [ev |-> "println", val |-> r.val])
                                    ELSE r.self,
                                    exprs, i + 1, r)
         IN  matched(evaluate(self, exprs[i]))

RECURSIVE for_exprs(_, _, _, _)
\* for expr in exprs { match interpreter.evaluate(&expr) { ... } } from the
\* i-th expression on; last is the outcome of the latest evaluation.  What
\* the loop prints is recorded in the trace.
for_exprs(self, exprs, i, last) ==
    IF i > Len(exprs)
    THEN [self |-> self, last |-> last, at |-> i - 1]
    ELSE LET matched(r) ==
                 IF ~r.ok
                 THEN [self |-> Log(r.self, [ev |-> "runtime error", err |-> r.err]),
                       last |-> r, at |-> i]
                 ELSE for_exprs(IF ~eq(r.val, Value_Nil)
                                THEN Log(r.self, [ev |-> "println", val |-> r.val])
                                ELSE r.self,
                                exprs, i + 1, r)
         IN  matched(evaluate(self, exprs[i]))

\* The modules an `include` of which has returned without error during the
\* evaluation recorded in t; `included` holds those of the lines before the
\* current one.
Included(t) ==
    {t[j].expr.module : j \in {q \in DOMAIN t : /\ t[q].ev = "return"
                                                 /\ t[q].expr.tag = "Include"
                                                 /\ t[q].ok}}

\* No step of the evaluation falls outside what the model represents.
Represented(t) == \A j \in DOMAIN t : t[j].ev # "unrepresented"

\* The loop of execute over the expressions the source text has parsed
\* into: they are evaluated in order against the interpreter until one fails.
evaluate_all(exprs) ==
    LET ran(r) ==
            /\ WithinBounds(r.self)
            /\ Represented(r.self.trace)
            /\ interpreter' = [natives |-> r.self.natives, vars |-> r.self.vars,
                               loaded_modules |-> r.self.loaded_modules]
            /\ pc' = "executed"
            /\ code' = exprs
            /\ expr' = IF r.at = 0 THEN NoExpr ELSE exprs[r.at]
            /\ pre' = interpreter
            /\ result' = [ok |-> r.last.ok, val |-> r.last.val, err |-> r.last.err]
            /\ trace' = r.self.trace
            /\ UNCHANGED included
    IN  ran(for_exprs(Start(interpreter), exprs, 1, NoResult))

\* execute, of a source text taken as already parsed into exprs
execute(exprs) ==
    /\ evaluate_all(exprs)
    /\ UNCHANGED <<lexer, lexed, parsed>>

VarDecl ==
    /\ pc = "prompt"
    /\ \E n \in Names : \E v \in DeclValues(n) : execute(<<Expr_VarDecl(n, v)>>)

Assignment ==
    /\ pc = "prompt"
    /\ \E n \in Names : \E v \in AssignValues(n) : execute(<<Expr_Assignment(n, v)>>)

MethodCall ==
    /\ pc = "prompt"
    /\ \E o \in Receivers, m \in Methods : \E a \in ArgLists(m) :
           execute(<<Expr_MethodCall(o, m, a)>>)

IndexAccess ==
    /\ pc = "prompt"
    /\ \E o \in {X} \cup Literals, k \in KeyExprs : execute(<<Expr_IndexAccess(o, k)>>)

FieldAccess ==
    /\ pc = "prompt"
    /\ \E o \in {X} \cup Literals, f \in {"k", "j"} : execute(<<Expr_FieldAccess(o, f)>>)

Collection ==
    /\ pc = "prompt"
    /\ \E c \in Literals : execute(<<c>>)

Identifier ==
    /\ pc = "prompt"
    /\ \E i \in {X, Y} : execute(<<i>>)

\* The loop of run_repl comes back to the prompt: the outcome of the line
\* has been printed and only the interpreter is kept.
Prompt ==
    /\ pc = "executed"
    /\ pc' = "prompt"
    /\ code' = << >>
    /\ expr' = NoExpr
    /\ pre' = Interpreter_new
    /\ result' = NoResult
    /\ trace' = << >>
    /\ included' = included \cup Included(trace)
    /\ parsed' = NoParsed
    /\ UNCHANGED <<interpreter, lexer, lexed>>

Next ==
    \/ VarDecl
    \/ Assignment
    \/ MethodCall
    \/ IndexAccess
    \/ FieldAccess
    \/ Collection
    \/ Identifier
    \/ Prompt

Spec == Init /\ [][Next]_vars

(***************************************************************************)
(* Modules and calls: lines that include a module, call a function, or do  *)
(* both in one source text.                                                *)
(***************************************************************************)
Modules(registry) == {registry[i] : i \in DOMAIN registry}
Funcs(module) == {module.funcs[i] : i \in DOMAIN module.funcs}
FuncNames(registry) == UNION {{f[1] : f \in Funcs(m)} : m \in Modules(registry)}

IncludeNames == {"fs", "json", "io", "nomod"}
CallModules == {None} \cup {Some(m) : m \in {"io", "math", "string", "fs", "json", "foo"}}
CallNames ==
    FuncNames(REGISTRY_STD) \cup FuncNames(REGISTRY_OPTIONAL)
        \cup {"math_abs", "fs_read", "nofn"}
\* x is never declared by these lines: an argument x fails
CallArgs ==
    { << >>, <<MinusOne>>, <<Lit(1), Lit(2)>>, <<DeclY, Y>>, <<Y, DeclY>>, <<DeclY, X>>,
      <<Expr_String("a")>>, <<Lit(1), Lit(1), Lit(1), Lit(1)>> }

Include ==
    /\ pc = "prompt"
    /\ \E m \in IncludeNames : execute(<<Expr_Include(m)>>)

Call ==
    /\ pc = "prompt"
    /\ \E m \in CallModules, f \in CallNames, a \in CallArgs : execute(<<Expr_Call(m, f, a)>>)

\* `include m; n::f()` and `{ include m; include m }` as one source text
IncludeAndCall ==
    /\ pc = "prompt"
    /\ \E m \in IncludeNames :
           \/ \E n \in {"fs", "json"}, f \in FuncNames(REGISTRY_OPTIONAL) :
                  execute(<<Expr_Include(m), Expr_Call(Some(n), f, << >>)>>)
           \/ execute(<<Expr_Block(<<Expr_Include(m), Expr_Include(m)>>)>>)

NextModules ==
    \/ Include
    \/ Call
    \/ IncludeAndCall
    \/ Prompt

SpecModules == Init /\ [][NextModules]_vars

(***************************************************************************)
(* Binary operators: lines `l op r` over operands of every variant.        *)
(***************************************************************************)
True == Expr_BinaryOp(Lit(1), Lit(1), "DblEquals")
False == Expr_BinaryOp(Lit(1), Lit(2), "DblEquals")
\* { } evaluates to Nil
NilExpr == Expr_Block(<< >>)
\* z is never declared: an operand z fails
Z == Expr_Identifier("z")
Operands ==
    { Lit(0), Lit(1), Lit(2), MinusOne, Expr_Number(OneAndFraction),
      Expr_String(""), Expr_String("a"), True, False, NilExpr,
      Expr_Collection(<< >>), Expr_Collection(<<CEntry_Indexed(Lit(1))>>),
      Y, DeclY, Z }
Comparisons == {"DblEquals", "Lt", "Gt", "Lte", "Gte", "Neq"}
Arithmetic == {"Add", "Sub", "Mul", "Div", "Mod"}

Comparison ==
    /\ pc = "prompt"
    /\ \E l \in Operands, r \in Operands, op \in Comparisons :
           execute(<<Expr_BinaryOp(l, r, op)>>)

Arithmetical ==
    /\ pc = "prompt"
    /\ \E l \in Operands, r \in Operands, op \in Arithmetic :
           execute(<<Expr_BinaryOp(l, r, op)>>)

NextOps ==
    \/ Comparison
    \/ Arithmetical
    \/ Prompt

SpecOps == Init /\ [][NextOps]_vars

(***************************************************************************)
(* Control: lines that are an `if`, lines that are a block, and source     *)
(* texts of several top-level expressions.  y, t and e are declared by     *)
(* sub-expressions, x holds a collection, z is never declared.             *)
(***************************************************************************)
T == Expr_Identifier("t")
DeclT == Expr_VarDecl("t", Lit(1))
DeclE == Expr_VarDecl("e", Lit(1))
PushX(v) == Expr_MethodCall(X, "push", <<v>>)

Conds ==
    { Lit(0), Lit(1), Expr_String(""), True, False, NilExpr,
      Expr_Collection(<< >>), Expr_Collection(<<CEntry_Indexed(Lit(1))>>),
      Expr_Collection(<<CEntry_Keyed("k", Lit(1))>>), DeclY, Y, Z }
Thens == {Block(<<DeclT, Expr_String("a")>>), Block(<< >>), Block(<<Z, DeclT>>)}
Elses ==
    { None, Some(Block(<<DeclE, Expr_String("b")>>)),
      Some(Block(<<Expr_If(True, Block(<<DeclE>>), None)>>)) }

Blocks ==
    { NilExpr,
      Expr_Block(<<Lit(1), Expr_String("a")>>),
      Expr_Block(<<DeclY, Z, AssignY>>),
      Expr_Block(<<Expr_Block(<<Expr_Block(<<DeclT>>)>>), T>>),
      Expr_Block(<<Expr_VarDecl("x", Expr_Collection(<< >>)), PushX(Lit(1)), AssignY, Z,
                   PushX(Lit(2))>>),
      Expr_Block(<<PushX(Lit(1)), Z>>),
      Expr_Block(<<Expr_If(Lit(0), Block(<<DeclT>>), None),
                   Expr_Assignment("t", Lit(2)), DeclT>>) }

ProgramExprs ==
    { Lit(1), DeclY, AssignY, Y, T, Expr_If(Lit(0), Block(<<DeclT>>), None),
      Expr_VarDecl("t", Lit(2)) }
Programs == UNION {[1..n -> ProgramExprs] : n \in 0..MaxExprs}

If ==
    /\ pc = "prompt"
    /\ \E c \in Conds, t \in Thens, e \in Elses : execute(<<Expr_If(c, t, e)>>)

Blocked ==
    /\ pc = "prompt"
    /\ \E b \in Blocks : execute(<<b>>)

\* a source text of up to MaxExprs top-level expressions
Program ==
    /\ pc = "prompt"
    /\ \E exprs \in Programs : execute(exprs)

NextControl ==
    \/ If
    \/ Blocked
    \/ Program
    \/ Prompt

SpecControl == Init /\ [][NextControl]_vars

(***************************************************************************)
(* The lexer on its own: a Lexer is made for a source text and next() is   *)
(* called on it time after time, as Parser::new and Parser::advance do.    *)
(***************************************************************************)
TextChars == {"a", "1", " ", "\"", ".", ":", "=", "!", "[", EAcute}
ShortTexts == UNION {[1..n -> TextChars] : n \in 0..MaxLen}
WordTexts ==
    { <<"v", "a", "l">>, <<"i", "f">>, <<"e", "l", "s", "e">>,
      <<"i", "n", "c", "l", "u", "d", "e">>, <<"v", "a", "l", "s">>,
      <<" ", "i", "f", "(", "x", ")">>, <<"e", "l", "s", "e", "{", "}">>,
      <<"x", "[", "1", "]">>, <<"x", ".", "y", "(", ")">>, <<"m", ":", ":", "f">>,
      <<"[", "a", ",", "b", "]", ";">>, <<"{", "a", ":", "1", "}">>,
      <<"'", EAcute, "a", "'">>, <<"1", ".", "2", ".", "1">>, <<"a", "_", "1", "<", "=", "2">> }
Texts == ShortTexts \cup WordTexts

\* next() may be called once more after it has returned the end of input
MaxCalls == MaxLen + 2

InitLexer ==
    /\ interpreter = Interpreter_new
    /\ pc = "prompt"
    /\ code = << >>
    /\ included = {}
    /\ expr = NoExpr
    /\ pre = Interpreter_new
    /\ result = NoResult
    /\ trace = << >>
    /\ lexer \in {Lexer_new(source) : source \in Texts}
    /\ lexed = NoLexed
    /\ parsed = NoParsed

\* one call of next(); a panic ends the process
Lexer_next ==
    /\ ~lexed.panic
    /\ lexed.calls < MaxCalls
    /\ LET returned(r) ==
               /\ lexer' = r.lexer
               /\ lexed' = [token |-> r.token, panic |-> r.panic, calls |-> lexed.calls + 1]
       IN  returned(next(lexer))
    /\ UNCHANGED <<interpreter, pc, code, expr, pre, result, trace, included, parsed>>

NextLexer == Lexer_next

SpecLexer == InitLexer /\ [][NextLexer]_vars

(***************************************************************************)
(* The parser on its own, on the tokens of its own vocabulary (parser.rs   *)
(* matches LBracket, RBracket, Dot and Include besides the kinds the lexer *)
(* has): chains of binary operators and collection literals.               *)
(***************************************************************************)
Operators ==
    [w \in {"+", "-", "*", "/", "%", "==", "<", ">", "<=", ">=", "!=", "=", "::"} |->
        CASE w = "+" -> "Add" [] w = "-" -> "Sub" [] w = "*" -> "Mul" [] w = "/" -> "Div"
          [] w = "%" -> "Mod" [] w = "==" -> "DblEquals" [] w = "<" -> "Lt"
          [] w = ">" -> "Gt" [] w = "<=" -> "Lte" [] w = ">=" -> "Gte" [] w = "!=" -> "Neq"
          [] w = "=" -> "Equals" [] w = "::" -> "DblColon"]
BinOps == {w \in DOMAIN Operators : is_binop(Operators[w])}

\* the kinds Parser checks for (parser.rs), by lexeme
Punctuation ==
    [c \in {"(", ")", "{", "}", "[", "]", ",", ".", ":", ";"} |->
        CASE c = "(" -> "LParen" [] c = ")" -> "RParen" [] c = "{" -> "LBrace"
          [] c = "}" -> "RBrace" [] c = "[" -> "LBracket" [] c = "]" -> "RBracket"
          [] c = "," -> "Comma" [] c = "." -> "Dot" [] c = ":" -> "Colon"
          [] c = ";" -> "Semi"]
KeywordKinds == [val |-> "Val", if |-> "If", else |-> "Else", include |-> "Include"]

\* the token of a word of a text; 's' is the string literal s
token_of(w) ==
    CASE w \in DOMAIN Punctuation -> make_token(Punctuation[w], w)
      [] w \in DOMAIN Operators -> make_token(Operators[w], w)
      [] w \in DOMAIN KeywordKinds -> make_token(KeywordKinds[w], w)
      [] w \in {"0", "1", "2"} -> make_token("Number", w)
      [] w = "'s'" -> make_token("String", "s")
      [] OTHER -> make_token("Ident", w)
Tokens(words) == [k \in 1..Len(words) |-> token_of(words[k])]

\* a1 op1 a2 op2 ... an: the k-th operand is the identifier AtomNames[k]
AtomNames == <<"a", "b", "c", "d", "e">>
Chain(ops) ==
    [k \in 1..(2 * Len(ops) + 1) |->
        IF k % 2 = 1 THEN token_of(AtomNames[(k + 1) \div 2]) ELSE token_of(ops[k \div 2])]
BinaryTexts == {Chain(ops) : ops \in UNION {[1..n -> BinOps] : n \in 0..(MaxAtoms - 1)}}

\* the entries of a collection literal: the tokens of the key, none for a
\* positional entry, and the tokens of the value
Entry(key, value) == [key |-> Tokens(key), value |-> Tokens(value)]
EntryPhrases ==
    { Entry(<< >>, <<"a">>), Entry(<< >>, <<"1">>), Entry(<< >>, <<"'s'">>),
      Entry(<< >>, <<"1", "+", "a">>), Entry(<< >>, <<"(", "a", ")">>),
      Entry(<< >>, <<"a", "+", "1">>), Entry(<< >>, <<"f", "(", "1", ")">>),
      Entry(<< >>, <<"a", ".", "b">>), Entry(<< >>, <<"a", "[", "0", "]">>),
      Entry(<<"a">>, <<"1">>), Entry(<<"'s'">>, <<"a", "+", "1">>),
      Entry(<<"1">>, <<"2">>), Entry(<<"1", "+", "2">>, <<"1">>),
      Entry(<<"(", "a", ")">>, <<"1">>) }
EntryText(e) == IF e.key = << >> THEN e.value ELSE e.key \o <<token_of("=")>> \o e.value

RECURSIVE Separated(_, _)
\* the texts of the entries from the k-th on, with commas between them
Separated(entries, k) ==
    IF k > Len(entries) THEN << >>
    ELSE IF k = Len(entries) THEN EntryText(entries[k])
    ELSE EntryText(entries[k]) \o <<token_of(",")>> \o Separated(entries, k + 1)
CollectionText(entries) == <<token_of("[")>> \o Separated(entries, 1) \o <<token_of("]")>>
EntryLists == UNION {[1..n -> EntryPhrases] : n \in 0..MaxEntries}
CollectionTexts == {CollectionText(entries) : entries \in EntryLists}

\* Parser::new(lexer).parse() on the tokens the lexer would hand out; a
\* parser parses one text
Parsed(source, tokens) ==
    LET outcome(r) ==
            [source |-> source, tokens |-> tokens, ok |-> r.ok,
             exprs |-> IF r.ok THEN r.val ELSE << >>, err |-> r.err]
    IN  outcome(parse(Parser_new(tokens)))

ParseBinary ==
    /\ pc = "prompt"
    /\ pc' = "parsed"
    /\ \E tokens \in BinaryTexts : parsed' = Parsed(<< >>, tokens)
    /\ UNCHANGED <<interpreter, code, expr, pre, result, trace, included, lexer, lexed>>

ParseCollection ==
    /\ pc = "prompt"
    /\ pc' = "parsed"
    /\ \E tokens \in CollectionTexts : parsed' = Parsed(<< >>, tokens)
    /\ UNCHANGED <<interpreter, code, expr, pre, result, trace, included, lexer, lexed>>

NextParser ==
    \/ ParseBinary
    \/ ParseCollection

SpecParser == Init /\ [][NextParser]_vars


(***************************************************************************)
(* The runner (main.rs, execute): a source text is lexed and parsed as a   *)
(* whole, and only then are its expressions evaluated.  The parser pulls   *)
(* one token at a time from the lexer, so a panic of the lexer ends the    *)
(* process only when the parser gets as far as the token it strikes at.    *)
(***************************************************************************)
\* what the lexer hands out in place of a token when next() panics
PanicToken == make_token("Panic", "")

RECURSIVE lex_from(_, _)
\* the tokens next() returns from here on, up to None or to a panic
lex_from(self, tokens) ==
    LET returned(r) ==
            IF r.panic THEN Append(tokens, PanicToken)
            ELSE IF ~r.token.some THEN tokens
            ELSE lex_from(r.lexer, Append(tokens, r.token.v))
    IN  returned(next(self))
lex_all(source) == lex_from(Lexer_new(source), << >>)

\* the parser has pulled a token the lexer panicked at
Pulled(tokens, self) ==
    \E k \in DOMAIN tokens : tokens[k] = PanicToken /\ k <= self.i

RECURSIVE parsed_before(_, _)
\* the expressions parse has pushed when it stops, at the end or at an error
parsed_before(self, exprs) ==
    IF check(self, "Eof") THEN exprs
    ELSE LET pushed(e) ==
                 IF ~e.ok THEN exprs
                 ELSE parsed_before(IF check(e.self, "Semi") THEN Parser_advance(e.self)
                                    ELSE e.self,
                                    Append(exprs, e.val))
         IN  pushed(parse_expr(self))

\* The process has died in a panic; nothing of it is left to observe.
Abort(source, tokens) ==
    /\ pc' = "aborted"
    /\ parsed' = [source |-> source, tokens |-> tokens, ok |-> FALSE, exprs |-> << >>,
                  err |-> "panic"]
    /\ UNCHANGED <<interpreter, code, expr, pre, result, trace, included>>

\* println!("parser error: {}", e); return;
ParserError(parsing) ==
    /\ pc' = "executed"
    /\ code' = << >>
    /\ expr' = NoExpr
    /\ pre' = interpreter
    /\ result' = NoResult
    /\ trace' = <<[ev |-> "parser error", err |-> parsing.err]>>
    /\ parsed' = parsing
    /\ UNCHANGED <<interpreter, included>>

\* execute that evaluates what was parsed before a parser error and then
\* reports the error.
execute_code_parsed_prefix(source) ==
    LET tokens == lex_all(source)
        run(r) ==
            IF Pulled(tokens, r.self) THEN Abort(source, tokens)
            ELSE /\ evaluate_all(IF r.ok THEN r.val
                                 ELSE parsed_before(Parser_new(tokens), << >>))
                 /\ parsed' = [source |-> source, tokens |-> tokens, ok |-> r.ok,
                               exprs |-> IF r.ok THEN r.val ELSE << >>, err |-> r.err]
    IN  /\ run(parse(Parser_new(tokens)))
        /\ UNCHANGED <<lexer, lexed>>

execute_code(source) ==
    LET tokens == lex_all(source)
        run(r) ==
            IF Pulled(tokens, r.self) THEN Abort(source, tokens)
            ELSE IF ~r.ok THEN ParserError(Parsed(source, tokens))
            ELSE /\ evaluate_all(r.val)
                 /\ parsed' = [source |-> source, tokens |-> tokens, ok |-> TRUE,
                               exprs |-> r.val, err |-> ""]
    IN  /\ run(parse(Parser_new(tokens)))
        /\ UNCHANGED <<lexer, lexed>>

Phrases ==
    { <<"v", "a", "l", " ", "x", "=", "1">>,
      <<"v", "a", "l", " ", "y", "=", "x">>,
      <<"x", "=", "2">>,
      <<"x">>,
      <<"v", "a", "l", " ", "=", "1">>,
      <<"v", "a", "l", " ", "z">>,
      <<"1", "+">>,
      <<")">>,
      <<"{", " ", "v", "a", "l", " ", "z", "=", "1">>,
      <<EAcute>> }

RECURSIVE Joined(_, _)
\* the phrases from the k-th on, with a blank between them
Joined(phrases, k) ==
    IF k > Len(phrases) THEN << >>
    ELSE IF k = Len(phrases) THEN phrases[k]
    ELSE phrases[k] \o <<" ">> \o Joined(phrases, k + 1)
RunnerTexts == {Joined(ps, 1) : ps \in UNION {[1..n -> Phrases] : n \in 1..MaxPhrases}}

Run ==
    /\ pc = "prompt"
    /\ \E source \in RunnerTexts : execute_code(source)

NextRunner ==
    \/ Run
    \/ Prompt

SpecRunner == Init /\ [][NextRunner]_vars

(***************************************************************************)
(* Collections in two variables: a is declared from a collection literal,  *)
(* b is a copy of it, and both are worked on by method calls; a line may   *)
(* also be a collection literal alone.                                     *)
(***************************************************************************)
A == Expr_Identifier("a")
B == Expr_Identifier("b")
EntryChoices ==
    { CEntry_Indexed(Lit(1)), CEntry_Indexed(Lit(2)), CEntry_Keyed("k", Lit(1)),
      CEntry_NumKeyed(0, Lit(2)) }
CollectionLiterals ==
    {Expr_Collection(es) : es \in UNION {[1..n -> EntryChoices] : n \in 0..(MaxEntries + 1)}}
\* the literals a is declared from hold the value 1 throughout
PlainLiterals ==
    {c \in CollectionLiterals : \A k \in DOMAIN c.entries : c.entries[k].ex = Lit(1)}
Mutations ==
    { [method |-> "push", args |-> <<Lit(1)>>],
      [method |-> "pop", args |-> << >>],
      [method |-> "insert", args |-> <<Lit(0), Lit(1)>>],
      [method |-> "insert", args |-> <<Expr_String("k"), Lit(1)>>] }
\* what is pushed and popped again: values no collection holds otherwise
Pushed == {Lit(2), Expr_String("s"), Expr_Collection(<<CEntry_Indexed(Lit(2))>>)}

Literal ==
    /\ pc = "prompt"
    /\ \E c \in CollectionLiterals : execute(<<c>>)

DeclareLiteral ==
    /\ pc = "prompt"
    /\ \E c \in PlainLiterals : execute(<<Expr_VarDecl("a", c)>>)

Copy ==
    /\ pc = "prompt"
    /\ \E e \in {Expr_VarDecl("b", A), Expr_Assignment("b", A), Expr_Assignment("a", B)} :
           execute(<<e>>)

Mutate ==
    /\ pc = "prompt"
    /\ \E o \in {A, B}, m \in Mutations : execute(<<Expr_MethodCall(o, m.method, m.args)>>)

PushPop ==
    /\ pc = "prompt"
    /\ \E o \in {A, B}, v \in Pushed :
           execute(<<Expr_MethodCall(o, "push", <<v>>), Expr_MethodCall(o, "pop", << >>)>>)

NextCollections ==
    \/ Literal
    \/ DeclareLiteral
    \/ Copy
    \/ Mutate
    \/ PushPop
    \/ Prompt

SpecCollections == Init /\ [][NextCollections]_vars

(***************************************************************************)
(* Reading the trace of the evaluation of a line.                          *)
(***************************************************************************)
Events == 1..Len(trace)
Enters(tag) == {i \in Events : trace[i].ev = "evaluate" /\ trace[i].expr.tag = tag}

\* The return of the evaluation entered at event i: sub-evaluations are of
\* strictly smaller expressions, so it is the first return of that
\* expression after i.
ReturnOf(i) ==
    CHOOSE j \in Events :
        /\ j > i /\ trace[j].ev = "return" /\ trace[j].expr = trace[i].expr
        /\ \A q \in (i + 1)..(j - 1) :
               ~(trace[q].ev = "return" /\ trace[q].expr = trace[i].expr)

\* Every evaluation entered has returned.
TraceWellFormed ==
    \A i \in Events : trace[i].ev = "evaluate" =>
        \E j \in Events : j > i /\ trace[j].ev = "return" /\ trace[j].expr = trace[i].expr

(***************************************************************************)
(* C1.  A declaration `val x = e` evaluated while x is bound fails with    *)
(* the "already defined" error, evaluates nothing of e (the very next      *)
(* event is its own return) and leaves the whole environment as it was.    *)
(* This is stated of every declaration evaluated, nested ones included.    *)
(***************************************************************************)
C1_RedeclarationFails ==
    \A i \in Enters("VarDecl") :
        trace[i].expr.name \in DOMAIN trace[i].vars =>
            /\ i + 1 \in Events
            /\ trace[i + 1].ev = "return"
            /\ trace[i + 1].expr = trace[i].expr
            /\ ~trace[i + 1].ok
            /\ trace[i + 1].err = "variable already defined"
            /\ trace[i + 1].vars = trace[i].vars

\* x is bound, y is not, and the line `val x = val y = 1` has been run: its
\* value expression would have declared y.
C1_Witness ==
    /\ pc = "executed"
    /\ expr = Expr_VarDecl("x", DeclY)
    /\ "x" \in DOMAIN pre.vars
    /\ "y" \notin DOMAIN pre.vars
    /\ ~result.ok
    /\ interpreter = pre

(***************************************************************************)
(* C2.  Whenever a declaration writes its binding for a name into the      *)
(* environment, the name was absent immediately before that write.         *)
(***************************************************************************)
C2_DeclarationNeverOverwrites ==
    \A i \in Events :
        (trace[i].ev = "insert" /\ trace[i].by = "exec_var_decl") => ~trace[i].present

(***************************************************************************)
(* C3.  An assignment `x = e` evaluated while x is unbound fails with the  *)
(* "not defined" error at once and the environment is as it was, so no     *)
(* binding is created; while x is bound and e evaluates successfully, the  *)
(* assignment yields Nil and the environment is the one e's evaluation     *)
(* left, with x rebound to e's value.                                      *)
(***************************************************************************)
C3_Assignment ==
    \A i \in Enters("Assignment") :
        LET a == trace[i].expr
            j == ReturnOf(i)
        IN  IF a.name \notin DOMAIN trace[i].vars
            THEN /\ j = i + 1
                 /\ ~trace[j].ok
                 /\ trace[j].err = "variable not defined"
                 /\ trace[j].vars = trace[i].vars
                 /\ a.name \notin DOMAIN trace[j].vars
            ELSE LET k == ReturnOf(i + 1) IN
                 /\ trace[i + 1].ev = "evaluate"
                 /\ trace[i + 1].expr = a.assignee
                 /\ trace[k].ok =>
                      /\ trace[j].ok
                      /\ trace[j].val = Value_Nil
                      /\ DOMAIN trace[j].vars = DOMAIN trace[k].vars
                      /\ trace[j].vars[a.name] = trace[k].val
                      /\ \A n \in DOMAIN trace[k].vars \ {a.name} :
                             trace[j].vars[n] = trace[k].vars[n]

\* x is bound, y is not, and the line `x = val y = 1` has been run: x is
\* rebound to Nil and y is left as the value expression declared it.
C3_Witness ==
    /\ pc = "executed"
    /\ expr = Expr_Assignment("x", DeclY)
    /\ "x" \in DOMAIN pre.vars
    /\ pre.vars["x"] # Value_Nil
    /\ result.ok
    /\ interpreter.vars["x"] = Value_Nil
    /\ "y" \notin DOMAIN pre.vars
    /\ interpreter.vars["y"] = Value_Number(One)


(***************************************************************************)
(* Collections, as the claims speak of them.                               *)
(***************************************************************************)
Collections == {interpreter.vars[n].c : n \in {q \in DOMAIN interpreter.vars :
                                                interpreter.vars[q].type = "collection"}}
IndexKeys(c) == {k.i : k \in {q \in DOMAIN c.entries : q.key = "Index"}}
HighestIndexPlusOne(c) ==
    IF IndexKeys(c) = {} THEN 0
    ELSE (CHOOSE m \in IndexKeys(c) : \A n \in IndexKeys(c) : n <= m) + 1
\* the index a Number key stands for: its integer part, 0 below zero
Truncated(n) == CHOOSE i \in 0..(MaxSize + 2) :
                    IF n < 0 THEN i = 0 ELSE i * Scale <= n /\ n < (i + 1) * Scale
\* size > 0, or no string or number key
ArrayLike(c) == c.size > 0 \/ {k \in DOMAIN c.entries : k.key \in {"String", "Number"}} = {}
\* the dispatches of `method` with `arity` arguments on a collection
Dispatches(method, arity) ==
    {d \in Events : /\ trace[d].ev = "call_method"
                    /\ trace[d].method = method
                    /\ Len(trace[d].args) = arity
                    /\ trace[d].receiver.type = "collection"}
\* what the method call `v.size()` returns
SizeOf(v) == call_method(v, "size", << >>).val

(***************************************************************************)
(* C4.  In every collection bound to a variable (all of them come from a   *)
(* collection literal followed by push, pop and insert calls), size is     *)
(* 1 + the highest Index key present, and 0 when there is no Index key.    *)
(***************************************************************************)
C4_SizeIsHighestIndexPlusOne ==
    \A c \in Collections : c.size = HighestIndexPlusOne(c)

(***************************************************************************)
(* C5.  An insert(k, v) whose Number key truncates to an index greater     *)
(* than the receiver's size fails with the out-of-bounds error and leaves  *)
(* the environment (so the receiver) as it was, whatever keys the receiver *)
(* holds; and no collection bound to a variable has a positional gap, an   *)
(* index below size with no entry.                                         *)
(***************************************************************************)
C5_InsertBeyondSizeFails ==
    /\ \A d \in Dispatches("insert", 2) :
           LET k == trace[d].args[1] IN
           (k.type = "number" /\ Truncated(k.n) > trace[d].receiver.c.size) =>
               /\ trace[d + 1].ev = "return"
               /\ ~trace[d + 1].ok
               /\ trace[d + 1].err = "index is out of bounds"
               /\ trace[d + 1].vars = trace[d].vars
    /\ \A c \in Collections : \A i \in 0..(c.size - 1) : CKey_Index(i) \in DOMAIN c.entries

(***************************************************************************)
(* C6.  For a variable a holding a collection, a.push(v) stores v at the   *)
(* index equal to the size before the call, leaves every other entry       *)
(* unchanged, and makes a.size() return one more than it returned before.  *)
(***************************************************************************)
C6_PushGrowsSizeCall ==
    \A d \in Dispatches("push", 1) :
        trace[d].on = "identifier" =>
            LET old == trace[d].receiver
                new == trace[d + 1].value
            IN  /\ trace[d + 1].ev = "insert"
                /\ new.type = "collection"
                /\ DOMAIN new.c.entries = DOMAIN old.c.entries \cup {CKey_Index(old.c.size)}
                /\ new.c.entries[CKey_Index(old.c.size)] = trace[d].args[1]
                /\ \A k \in DOMAIN old.c.entries \ {CKey_Index(old.c.size)} :
                       new.c.entries[k] = old.c.entries[k]
                /\ SizeOf(new) = Value_Number(SizeOf(old).n + One)

(***************************************************************************)
(* C6, amended.  a.push(v) stores v at the index equal to the size before  *)
(* the call, leaves every other entry unchanged and makes the size counter *)
(* one greater; a.size() then returns one more than before when the        *)
(* collection was array-like before the push (size > 0, or no string or    *)
(* number key), and returns 1 when it was not (a.size() returned its       *)
(* number of entries before).                                              *)
(***************************************************************************)
C6_PushGrowsSize ==
    \A d \in Dispatches("push", 1) :
        trace[d].on = "identifier" =>
            LET old == trace[d].receiver
                new == trace[d + 1].value
            IN  /\ trace[d + 1].ev = "insert"
                /\ new.type = "collection"
                /\ DOMAIN new.c.entries = DOMAIN old.c.entries \cup {CKey_Index(old.c.size)}
                /\ new.c.entries[CKey_Index(old.c.size)] = trace[d].args[1]
                /\ \A k \in DOMAIN old.c.entries \ {CKey_Index(old.c.size)} :
                       new.c.entries[k] = old.c.entries[k]
                /\ new.c.size = old.c.size + 1
                /\ IF ArrayLike(old.c)
                   THEN /\ SizeOf(old) = Value_Number(old.c.size * Scale)
                        /\ SizeOf(new) = Value_Number(SizeOf(old).n + One)
                   ELSE /\ SizeOf(old) = Value_Number(Cardinality(DOMAIN old.c.entries) * Scale)
                        /\ SizeOf(new) = Value_Number(One)

\* x holds a collection with a string key and size 0, and x.push(2) has run
C6_Witness ==
    /\ pc = "executed"
    /\ expr = Expr_MethodCall(X, "push", <<Lit(2)>>)
    /\ result.ok
    /\ pre.vars["x"].type = "collection"
    /\ pre.vars["x"].c.size = 0
    /\ CKey_String("k") \in DOMAIN pre.vars["x"].c.entries
    /\ interpreter.vars["x"].c.entries[CKey_Index(0)] = Value_Number(2 * Scale)

(***************************************************************************)
(* C7.  pop() on a collection of size 0 returns Nil and leaves the         *)
(* collection unchanged; on a collection of size n > 0 it returns the      *)
(* value stored at Index(n-1), removes that entry, sets size to n-1 and    *)
(* leaves all other entries unchanged.                                     *)
(***************************************************************************)
C7_Pop ==
    \A d \in Dispatches("pop", 0) :
        trace[d].on = "identifier" =>
            LET old == trace[d].receiver.c
                new == trace[d + 1].value.c
                ret == trace[d + 2].val
                last == CKey_Index(old.size - 1)
            IN  /\ trace[d + 1].ev = "insert"
                /\ trace[d + 2].ev = "return"
                /\ IF old.size = 0
                   THEN ret = Value_Nil /\ new = old
                   ELSE /\ last \in DOMAIN old.entries
                        /\ ret = old.entries[last]
                        /\ new.size = old.size - 1
                        /\ DOMAIN new.entries = DOMAIN old.entries \ {last}
                        /\ \A k \in DOMAIN new.entries : new.entries[k] = old.entries[k]


(***************************************************************************)
(* C8.  Reads of a collection c.  For a Number or String key k, c[k] and   *)
(* c.get(k) never fail and return the same result: the value stored under  *)
(* the key (Index(trunc k) for a Number, String(k) for a String) when it   *)
(* is present and Nil when it is absent.  The field access c.f returns     *)
(* what c["f"] returns when the string key f is present and fails with     *)
(* "undefined field" when it is absent.                                    *)
(***************************************************************************)
Stored(c, k) ==
    LET key == IF k.type = "number" THEN CKey_Index(Truncated(k.n)) ELSE CKey_String(k.s)
    IN  IF key \in DOMAIN c.entries THEN c.entries[key] ELSE Value_Nil

C8_ReadAsymmetry ==
    /\ \A i \in Enters("IndexAccess") :
           LET j == ReturnOf(i + 1) IN
           (trace[j].ok /\ trace[j].val.type = "collection") =>
               LET k == ReturnOf(j + 1)
                   r == ReturnOf(i)
                   get_k == call_method(trace[j].val, "get", <<trace[k].val>>)
               IN  /\ trace[j + 1].ev = "evaluate"
                   /\ trace[j + 1].expr = trace[i].expr.index
                   /\ (trace[k].ok /\ trace[k].val.type \in {"number", "string"}) =>
                          /\ trace[r].ok
                          /\ trace[r].val = Stored(trace[j].val.c, trace[k].val)
                          /\ get_k.ok
                          /\ get_k.val = trace[r].val
    /\ \A d \in Dispatches("get", 1) :
           trace[d].args[1].type \in {"number", "string"} =>
               LET r == IF trace[d].on = "identifier" THEN d + 2 ELSE d + 1 IN
               /\ trace[r].ev = "return"
               /\ trace[r].ok
               /\ trace[r].val = Stored(trace[d].receiver.c, trace[d].args[1])
    /\ \A i \in Enters("FieldAccess") :
           LET j == ReturnOf(i + 1)
               r == ReturnOf(i)
               f == trace[i].expr.field
           IN  (trace[j].ok /\ trace[j].val.type = "collection") =>
                   IF CKey_String(f) \in DOMAIN trace[j].val.c.entries
                   THEN /\ trace[r].ok
                        /\ trace[r].val = Stored(trace[j].val.c, Value_String(f))
                   ELSE /\ ~trace[r].ok
                        /\ trace[r].err = "undefined field"

\* x holds a collection with entries but no key "j", and x["j"] has been
\* read: Nil, no error
C8_Witness ==
    /\ pc = "executed"
    /\ expr = Expr_IndexAccess(X, Expr_String("j"))
    /\ "x" \in DOMAIN pre.vars
    /\ pre.vars["x"].type = "collection"
    /\ CKey_String("k") \in DOMAIN pre.vars["x"].c.entries
    /\ result.ok
    /\ result.val = Value_Nil

(***************************************************************************)
(* C9.  A method dispatched on a bare identifier x that succeeds leaves    *)
(* the environment binding x to the receiver as the method mutated it (a   *)
(* push is at the old size, a pop has taken the last position, an insert   *)
(* is under its key), and changes no other variable: the environment after *)
(* the call differs from the one at the dispatch in x alone.               *)
(***************************************************************************)
Mutated(old, method, args, new) ==
    IF old.type # "collection" THEN new = old
    ELSE CASE method = "push" ->
                /\ new.c.size = old.c.size + 1
                /\ Stored(new.c, Value_Number(old.c.size * Scale)) = args[1]
           [] method = "pop" ->
                /\ new.c.size = IF old.c.size = 0 THEN 0 ELSE old.c.size - 1
                /\ CKey_Index(old.c.size - 1) \notin DOMAIN new.c.entries
           [] method = "insert" -> Stored(new.c, args[1]) = args[2]
           [] OTHER -> new = old

C9_WriteBack ==
    \A d \in Events :
        (trace[d].ev = "call_method" /\ trace[d].on = "identifier") =>
            LET x == trace[d].name
                before == trace[d].vars
                m == call_method(trace[d].receiver, trace[d].method, trace[d].args)
            IN  /\ x \in DOMAIN before
                /\ trace[d].receiver = before[x]
                /\ IF ~m.ok
                   THEN trace[d + 1].ev = "return" /\ ~trace[d + 1].ok
                   ELSE LET after == trace[d + 2].vars IN
                        /\ trace[d + 1].ev = "insert"
                        /\ trace[d + 1].name = x
                        /\ trace[d + 2].ev = "return"
                        /\ trace[d + 2].ok
                        /\ trace[d + 2].expr.tag = "MethodCall"
                        /\ trace[d + 2].expr.object = Expr_Identifier(x)
                        /\ DOMAIN after = DOMAIN before
                        /\ \A n \in DOMAIN before \ {x} : after[n] = before[n]
                        /\ after[x] = m.self
                        /\ Mutated(before[x], trace[d].method, trace[d].args, after[x])

\* x holds a collection, y is bound, and x.push(2) has run
C9_Witness ==
    /\ pc = "executed"
    /\ expr = Expr_MethodCall(X, "push", <<Lit(2)>>)
    /\ result.ok
    /\ "y" \in DOMAIN pre.vars
    /\ interpreter.vars["x"] # pre.vars["x"]
    /\ interpreter.vars["y"] = pre.vars["y"]

(***************************************************************************)
(* C10.  A method called on a receiver that is not a bare identifier works *)
(* on a copy: the environment after the call is the one produced by        *)
(* evaluating the arguments and then the receiver expression, so with      *)
(* arguments and receiver free of declarations and assignments no variable *)
(* changes, whatever the method.                                           *)
(***************************************************************************)
C10_TransientReceiver ==
    (pc = "executed" /\ expr.tag = "MethodCall" /\ expr.object.tag # "Identifier") =>
        LET a == eval_args(Start(pre), expr.args, 1, << >>)
            o == evaluate(a.self, expr.object)
        IN  /\ interpreter.vars = IF a.ok THEN o.self.vars ELSE a.self.vars
            /\ (\A i \in 1..Len(expr.args) : expr.args[i] \notin {DeclY, AssignY})
                   => interpreter = pre
            /\ \A d \in Events :
                   (trace[d].ev = "call_method" /\ trace[d].on = "expression") =>
                       /\ trace[d + 1].ev = "return"
                       /\ trace[d + 1].vars = trace[d].vars

\* x holds a collection and { x }.push(2) has run: the push succeeded on a
\* copy
C10_Witness ==
    /\ pc = "executed"
    /\ expr = Expr_MethodCall(Expr_Block(<<X>>), "push", <<Lit(2)>>)
    /\ result.ok
    /\ "x" \in DOMAIN pre.vars
    /\ pre.vars["x"].type = "collection"
    /\ interpreter = pre


(***************************************************************************)
(* C11.  `include m` is idempotent.  An include of an optional module m    *)
(* that an earlier include (of an earlier line, or earlier in the same     *)
(* source text) has loaded returns Nil without error and leaves the native *)
(* registry and the loaded-modules set as it found them, which is as the   *)
(* first include left them since nothing else changes either; an include   *)
(* of a name that is not in the optional registry fails with "not found"   *)
(* and leaves both unchanged.                                              *)
(***************************************************************************)
OptionalNames == {"fs", "json"}
\* the modules included before event j of the current evaluation
IncludedBefore(j) == included \cup Included(SubSeq(trace, 1, j))

C11_IncludeIdempotent ==
    /\ \A j \in Events :
           trace[j].ev = "load_module" =>
               LET m == trace[j].module
                   done == trace[j + 1]
                   ret == trace[j + 2]
               IN  /\ done.ev = "load_module returns"
                   /\ ret.ev = "return" /\ ret.expr = Expr_Include(m)
                   /\ (m \in OptionalNames /\ m \in IncludedBefore(j)) =>
                          /\ ret.ok /\ ret.val = Value_Nil
                          /\ done.natives = trace[j].natives
                          /\ done.loaded_modules = trace[j].loaded_modules
                   /\ m \notin OptionalNames =>
                          /\ ~ret.ok /\ ret.err = "module not found"
                          /\ done.natives = trace[j].natives
                          /\ done.loaded_modules = trace[j].loaded_modules
    /\ (pc = "executed" /\ code = <<expr>> /\ expr.tag = "Include"
            /\ (expr.module \in included \/ expr.module \notin OptionalNames))
           => interpreter = pre

\* fs was included by an earlier line and `include fs` has run again
C11_Witness ==
    /\ pc = "executed"
    /\ expr = Expr_Include("fs")
    /\ "fs" \in included
    /\ result.ok
    /\ result.val = Value_Nil
    /\ interpreter = pre
    /\ "fs_read" \in DOMAIN interpreter.natives


(***************************************************************************)
(* C12.  For every optional module m and function f of m: while no         *)
(* `include m` has executed, the registry holds no entry for m::f and a    *)
(* call m::f(...) whose arguments evaluate fails with "undefined           *)
(* function"; once an `include m` has executed, the registry holds m's     *)
(* native f under m_f, a call m::f(...) whose arguments evaluate invokes   *)
(* that native on them, and no line removes or changes a registry entry.   *)
(***************************************************************************)
\* the evaluation entered at i got past its arguments
ArgsEvaluated(i) == trace[ReturnOf(i) - 1].ev \in {"natives.get", "native"}

C12_CallAfterInclude ==
    /\ \A m \in Modules(REGISTRY_OPTIONAL) : \A f \in Funcs(m) :
           /\ (pc = "prompt" /\ m.name \in included) =>
                  /\ realname(m.name, f[1]) \in DOMAIN interpreter.natives
                  /\ interpreter.natives[realname(m.name, f[1])] = f[2]
           /\ (pc = "prompt" /\ m.name \notin included) =>
                  /\ realname(m.name, f[1]) \notin DOMAIN interpreter.natives
                  /\ f[1] \notin DOMAIN interpreter.natives
           /\ \A i \in Enters("Call") :
                  (trace[i].expr.module = Some(m.name) /\ trace[i].expr.name = f[1]
                       /\ ArgsEvaluated(i)) =>
                      LET r == ReturnOf(i) IN
                      IF m.name \in IncludedBefore(i)
                      THEN /\ trace[r - 1].ev = "native"
                           /\ trace[r - 1].fptr = f[2]
                           /\ Len(trace[r - 1].args) = Len(trace[i].expr.args)
                           /\ trace[r].err # "undefined function"
                      ELSE /\ ~trace[r].ok
                           /\ trace[r].err = "undefined function"
    /\ pc = "executed" =>
           \A k \in DOMAIN pre.natives :
               /\ k \in DOMAIN interpreter.natives
               /\ interpreter.natives[k] = pre.natives[k]

\* fs was included by an earlier line, and fs::read() has been called
C12_Witness ==
    /\ pc = "executed"
    /\ expr = Expr_Call(Some("fs"), "read", << >>)
    /\ "fs" \in included
    /\ "json" \notin included
    /\ result.ok


(***************************************************************************)
(* C13.  Call resolution.  Once its arguments are evaluated, a call looks  *)
(* up its signature (module_name when it names a module, else the bare     *)
(* name) in the native registry and invokes what it finds; only when the   *)
(* signature is absent does it look up the bare name; it fails with        *)
(* "undefined function" exactly when neither key is registered.  From      *)
(* construction on, the registry holds every function f of every           *)
(* always-loaded module m under m_f, so that m::f resolves to it.          *)
(***************************************************************************)
Entries(modules) == UNION {{<<realname(m.name, f[1]), f[2]>> : f \in Funcs(m)} : m \in modules}
\* what is registered when event i happens: the always-loaded modules and
\* the optional ones included so far
Registered(i) ==
    Entries(Modules(REGISTRY_STD)
                \cup {m \in Modules(REGISTRY_OPTIONAL) : m.name \in IncludedBefore(i)})
Keys(i) == {e[1] : e \in Registered(i)}
Lookup(key, found) == [ev |-> "natives.get", key |-> key, found |-> found]

C13_CallResolution ==
    /\ \A e \in Entries(Modules(REGISTRY_STD)) :
           /\ e[1] \in DOMAIN interpreter.natives
           /\ interpreter.natives[e[1]] = e[2]
    /\ \A i \in Enters("Call") :
           ArgsEvaluated(i) =>
               LET call == trace[i].expr
                   sig == IF call.module.some
                          THEN call.module.v \o "_" \o call.name ELSE call.name
                   r == ReturnOf(i)
               IN  /\ (trace[r].err = "undefined function")
                          <=> (sig \notin Keys(i) /\ call.name \notin Keys(i))
                   /\ CASE sig \in Keys(i) ->
                             /\ trace[r - 2] = Lookup(sig, TRUE)
                             /\ trace[r - 1].ev = "native"
                             /\ <<sig, trace[r - 1].fptr>> \in Registered(i)
                             /\ trace[r - 3].ev # "natives.get"
                        [] sig \notin Keys(i) /\ call.name \in Keys(i) ->
                             /\ trace[r - 3] = Lookup(sig, FALSE)
                             /\ trace[r - 2] = Lookup(call.name, TRUE)
                             /\ trace[r - 1].ev = "native"
                             /\ <<call.name, trace[r - 1].fptr>> \in Registered(i)
                        [] OTHER ->
                             /\ trace[r - 2] = Lookup(sig, FALSE)
                             /\ trace[r - 1] = Lookup(call.name, FALSE)
                             /\ ~trace[r].ok

\* foo::math_abs(-1): the signature foo_math_abs is not registered, the bare
\* name math_abs is
C13_Witness ==
    /\ pc = "executed"
    /\ expr = Expr_Call(Some("foo"), "math_abs", <<MinusOne>>)
    /\ result.ok
    /\ result.val = Value_Number(One)


(***************************************************************************)
(* C14.  In a call with arguments a1..an every argument is evaluated       *)
(* exactly once, left to right, each in the environment the one before     *)
(* left, and before any lookup or invocation: between the entry of the     *)
(* call and its return the trace holds the evaluations of a1, a2, ... in   *)
(* order and then only lookups and the invocation, which receives the      *)
(* argument values in order.  If ai fails the call returns ai's error at   *)
(* once: no later argument is evaluated, nothing is looked up or invoked,  *)
(* and the environment is the one a1..a(i-1) and the failed ai left.       *)
(***************************************************************************)
RECURSIVE ArgsInOrder(_, _, _, _)
\* the k-th argument of the call entered at i is entered at position p, the
\* arguments before it having yielded acc
ArgsInOrder(i, k, p, acc) ==
    LET r == ReturnOf(i)
        args == trace[i].expr.args
    IN  IF k > Len(args)
        THEN /\ \A j \in p..(r - 1) : trace[j].ev \in {"natives.get", "native"}
             /\ trace[p].ev = "natives.get"
             /\ trace[r - 1].ev = "native" => trace[r - 1].args = acc
        ELSE /\ trace[p].ev = "evaluate"
             /\ trace[p].expr = args[k]
             /\ trace[p].vars = trace[p - 1].vars
             /\ LET q == ReturnOf(p) IN
                IF trace[q].ok
                THEN ArgsInOrder(i, k + 1, q + 1, Append(acc, trace[q].val))
                ELSE /\ r = q + 1
                     /\ ~trace[r].ok
                     /\ trace[r].err = trace[q].err
                     /\ trace[r].vars = trace[q].vars

C14_ArgumentsInOrder ==
    /\ \A i \in Enters("Call") : ArgsInOrder(i, 1, i + 1, << >>)
    /\ (pc = "executed" /\ expr.tag = "Call") =>
           interpreter.vars = trace[ReturnOf(CHOOSE i \in Enters("Call") :
                                                 \A j \in Enters("Call") : i >= j)].vars

\* math::max(val y = 1, x) with x undeclared: y has been declared, the call
\* has failed on x and no native has run
C14_Witness ==
    /\ pc = "executed"
    /\ expr = Expr_Call(Some("math"), "max", <<DeclY, X>>)
    /\ "y" \notin DOMAIN pre.vars
    /\ ~result.ok
    /\ result.err = "undefined variable or reference"
    /\ "y" \in DOMAIN interpreter.vars
    /\ \A j \in Events : trace[j].ev \notin {"natives.get", "native"}


(***************************************************************************)
(* C15.  A comparison operator (==, <, >, <=, >=, !=) applied to two       *)
(* operands that have evaluated never fails and returns a Bool.  As        *)
(* claimed: the result is false whenever the operands are of different     *)
(* variants.                                                               *)
(***************************************************************************)
\* the binary operations entered whose two operands have evaluated, each
\* with the positions of the operands' returns
Operated(ops) ==
    {i \in Enters("BinaryOp") :
        /\ trace[i].expr.op \in ops
        /\ trace[ReturnOf(i + 1)].ok
        /\ trace[ReturnOf(ReturnOf(i + 1) + 1)].ok}
LeftOf(i) == trace[ReturnOf(i + 1)].val
RightOf(i) == trace[ReturnOf(ReturnOf(i + 1) + 1)].val

C15_ComparisonFalseAcrossVariants ==
    \A i \in Operated(Comparisons) :
        LET r == trace[ReturnOf(i)] IN
        /\ r.ok
        /\ r.val.type = "bool"
        /\ LeftOf(i).type # RightOf(i).type => r.val = Value_Bool(FALSE)

(***************************************************************************)
(* C15, amended.  A comparison operator applied to two operands that have  *)
(* evaluated never fails and returns a Bool; when the operands are of      *)
(* different variants the result is false for ==, <, >, <=, >= and true    *)
(* for !=.                                                                 *)
(***************************************************************************)
C15_ComparisonAcrossVariants ==
    \A i \in Operated(Comparisons) :
        LET r == trace[ReturnOf(i)] IN
        /\ r.ok
        /\ r.val.type = "bool"
        /\ LeftOf(i).type # RightOf(i).type =>
               r.val = Value_Bool(trace[i].expr.op = "Neq")

\* 1 != "a" has been evaluated: true
C15_Witness ==
    /\ pc = "executed"
    /\ expr = Expr_BinaryOp(Lit(1), Expr_String("a"), "Neq")
    /\ result.ok
    /\ result.val = Value_Bool(TRUE)


(***************************************************************************)
(* C16.  An arithmetic operator (+, -, *, /, %) evaluates its left operand *)
(* and then its right operand, whatever the left one yielded.  With both   *)
(* evaluated: it yields a Number exactly when both are Numbers and, for /  *)
(* and %, the right one is not zero (for + and - the sum and difference);  *)
(* with a zero right operand / fails with "division by zero" and % with    *)
(* "modulo by zero"; with an operand that is not a Number it fails with    *)
(* the arithmetic error.                                                   *)
(***************************************************************************)
C16_Arithmetic ==
    /\ \A i \in Enters("BinaryOp") :
           LET j == ReturnOf(i + 1) IN
           /\ trace[i + 1].ev = "evaluate"
           /\ trace[i + 1].expr = trace[i].expr.left
           /\ trace[j].ok =>
                  /\ trace[j + 1].ev = "evaluate"
                  /\ trace[j + 1].expr = trace[i].expr.right
                  /\ ReturnOf(i) = ReturnOf(j + 1) + 1
    /\ \A i \in Operated(Arithmetic) :
           LET r == trace[ReturnOf(i)]
               op == trace[i].expr.op
               l == LeftOf(i)
               rt == RightOf(i)
               numbers == l.type = "number" /\ rt.type = "number"
           IN  /\ r.ok <=> (numbers /\ (op \in {"Div", "Mod"} => rt.n # 0))
               /\ r.ok => r.val.type = "number"
               /\ (r.ok /\ op = "Add") => r.val.n = l.n + rt.n
               /\ (r.ok /\ op = "Sub") => r.val.n = l.n - rt.n
               /\ (numbers /\ rt.n = 0 /\ op = "Div") => r.err = "division by zero"
               /\ (numbers /\ rt.n = 0 /\ op = "Mod") => r.err = "modulo by zero"
               /\ ~numbers =>
                      r.err = "arithmetic operations can only be performed on numbers"

\* "a" / 0 has been evaluated: the arithmetic error, not a division by zero
C16_Witness ==
    /\ pc = "executed"
    /\ expr = Expr_BinaryOp(Expr_String("a"), Lit(0), "Div")
    /\ ~result.ok
    /\ result.err = "arithmetic operations can only be performed on numbers"


(***************************************************************************)
(* The shape of the evaluation of a sequence of expressions: from position *)
(* p of the trace on, exprs[k], exprs[k+1], ... are evaluated one after    *)
(* the other, each in the environment the one before left, until one fails *)
(* or none is left.  Yields whether the trace has that shape, the position *)
(* after it and the outcome: the last value (val when k is beyond the      *)
(* sequence) or the first error.                                           *)
(***************************************************************************)
RECURSIVE Sequenced(_, _, _, _)
Sequenced(exprs, k, p, val) ==
    IF k > Len(exprs)
    THEN [shape |-> TRUE, next |-> p, ok |-> TRUE, val |-> val, err |-> ""]
    ELSE IF ~(/\ p \in Events
              /\ trace[p].ev = "evaluate"
              /\ trace[p].expr = exprs[k]
              /\ trace[p].vars = trace[p - 1].vars)
    THEN [shape |-> FALSE, next |-> p, ok |-> FALSE, val |-> Value_Nil, err |-> ""]
    ELSE LET q == ReturnOf(p) IN
         IF trace[q].ok
         THEN Sequenced(exprs, k + 1, q + 1, trace[q].val)
         ELSE [shape |-> TRUE, next |-> q + 1, ok |-> FALSE, val |-> Value_Nil,
               err |-> trace[q].err]

\* the evaluation entered at i consists of the evaluation recorded from p to
\* s.next - 1 and returns its outcome in the environment it left
ReturnsOutcome(i, s) ==
    LET r == ReturnOf(i) IN
    /\ s.shape
    /\ s.next = r
    /\ trace[r].ok = s.ok
    /\ trace[r].val = s.val
    /\ trace[r].err = s.err
    /\ trace[r].vars = trace[r - 1].vars

(***************************************************************************)
(* C17.  An `if` evaluates its condition once, first, and then exactly one *)
(* branch: the expressions of the then-block when the condition's value is *)
(* truthy, else those of the else-block, else nothing, yielding Nil; it    *)
(* yields what the branch yields.  A value is falsy exactly when it is     *)
(* Bool false, Nil or a collection with no entries, so that 0 and "" are   *)
(* truthy.  Nothing of the branch not taken is evaluated and the           *)
(* environment is the one the condition and the branch taken left.         *)
(***************************************************************************)
Falsy(v) ==
    \/ v.type = "bool" /\ ~v.b
    \/ v.type = "nil"
    \/ v.type = "collection" /\ Cardinality(DOMAIN v.c.entries) = 0

C17_IfTakesOneBranch ==
    \A i \in Enters("If") :
        LET if == trace[i].expr
            q == ReturnOf(i + 1)
            taken == IF ~Falsy(trace[q].val) THEN if.block.exprs
                     ELSE IF if.else_block.some THEN if.else_block.v.exprs
                     ELSE << >>
        IN  /\ trace[i + 1].ev = "evaluate"
            /\ trace[i + 1].expr = if.cond
            /\ IF trace[q].ok
               THEN ReturnsOutcome(i, Sequenced(taken, 1, q + 1, Value_Nil))
               ELSE /\ ReturnOf(i) = q + 1
                    /\ trace[q + 1].err = trace[q].err

\* if 0 { val t = 1; "a" } else { val e = 1; "b" } with neither t nor e
\* declared before: "a", t declared, e not
C17_Witness ==
    /\ pc = "executed"
    /\ expr = Expr_If(Lit(0), Block(<<DeclT, Expr_String("a")>>),
                      Some(Block(<<DeclE, Expr_String("b")>>)))
    /\ "t" \notin DOMAIN pre.vars
    /\ "e" \notin DOMAIN pre.vars
    /\ result.ok
    /\ result.val = Value_String("a")
    /\ "t" \in DOMAIN interpreter.vars
    /\ "e" \notin DOMAIN interpreter.vars


(***************************************************************************)
(* C18.  The runner evaluates the top-level expressions e1..en of a source *)
(* text in order against the one interpreter, each in the environment the  *)
(* one before left.  At the first ei that fails it reports the error and   *)
(* stops: none of e(i+1)..en is evaluated and the interpreter keeps the    *)
(* environment e1..e(i-1) and the failed ei left.  What is printed is      *)
(* exactly the non-Nil results of the expressions that succeeded, in       *)
(* order, followed by the error report if there is one.                    *)
(***************************************************************************)
RECURSIVE Ran(_, _, _, _)
\* code[k] is entered at position p in the environment env, out having been
\* printed so far
Ran(k, p, env, out) ==
    IF k > Len(code)
    THEN [shape |-> p = Len(trace) + 1 /\ interpreter.vars = env /\ result.ok,
          out |-> out]
    ELSE IF ~(/\ p \in Events
              /\ trace[p].ev = "evaluate"
              /\ trace[p].expr = code[k]
              /\ trace[p].vars = env)
    THEN [shape |-> FALSE, out |-> out]
    ELSE LET q == ReturnOf(p) IN
         IF ~trace[q].ok
         THEN [shape |-> /\ Len(trace) = q + 1
                         /\ interpreter.vars = trace[q].vars
                         /\ expr = code[k]
                         /\ ~result.ok
                         /\ result.err = trace[q].err,
               out |-> Append(out, [ev |-> "runtime error", err |-> trace[q].err])]
         ELSE IF trace[q].val.type = "nil"
         THEN Ran(k + 1, q + 1, trace[q].vars, out)
         ELSE Ran(k + 1, q + 2, trace[q].vars,
                  Append(out, [ev |-> "println", val |-> trace[q].val]))

IsOutput(event) == event.ev \in {"println", "runtime error"}

C18_RunnerStopsAtFirstError ==
    pc = "executed" =>
        LET ran == Ran(1, 1, pre.vars, << >>) IN
        /\ ran.shape
        /\ SelectSeq(trace, IsOutput) = ran.out

\* a text of three expressions of which the first declares y and prints
\* nothing, and the second fails: the third is not evaluated, y stays
C18_Witness ==
    /\ pc = "executed"
    /\ code = <<DeclY, T, Lit(1)>>
    /\ expr = T
    /\ ~result.ok
    /\ "y" \notin DOMAIN pre.vars
    /\ "y" \in DOMAIN interpreter.vars
    /\ SelectSeq(trace, IsOutput) = <<[ev |-> "runtime error", err |-> result.err]>>


(***************************************************************************)
(* C19.  A block evaluates its expressions in order, each in the           *)
(* environment the one before left, and yields the value of the last one,  *)
(* Nil when it has none.  If one of them fails the block fails with that   *)
(* error, the expressions after it are never evaluated, and what the ones  *)
(* before it did (declarations, assignments, mutations by method calls)    *)
(* stays: the block returns in the environment the failed one left.        *)
(* Stated of every block evaluated, nested ones included.                  *)
(***************************************************************************)
C19_BlockInOrder ==
    /\ \A i \in Enters("Block") :
           ReturnsOutcome(i, Sequenced(trace[i].expr.exprs, 1, i + 1, Value_Nil))
    /\ (pc = "executed" /\ Len(code) = 1 /\ code[1].tag = "Block")
           => interpreter.vars = trace[ReturnOf(1)].vars

\* { val x = []; x.push(1); y = 2; z; x.push(2) } with y declared and x and z
\* not: fails at z, with x declared and holding one element and y assigned
C19_Witness ==
    /\ pc = "executed"
    /\ expr = Expr_Block(<<Expr_VarDecl("x", Expr_Collection(<< >>)), PushX(Lit(1)),
                           AssignY, Z, PushX(Lit(2))>>)
    /\ "x" \notin DOMAIN pre.vars
    /\ "y" \in DOMAIN pre.vars
    /\ pre.vars["y"] = Value_Number(1 * Scale)
    /\ ~result.ok
    /\ "x" \in DOMAIN interpreter.vars
    /\ interpreter.vars["x"].type = "collection"
    /\ interpreter.vars["x"].c.size = 1
    /\ interpreter.vars["y"] = Value_Number(2 * Scale)


(***************************************************************************)
(* C20.  There is one flat namespace: a name declared inside a block or a  *)
(* branch of an `if`, at any depth, is still bound when the block is left  *)
(* and for the rest of the interpreter's life.  Every later evaluation     *)
(* starts with the name bound; a later read of it succeeds, a later        *)
(* assignment to it does not fail as undeclared, and a later declaration   *)
(* of the same name fails as a redeclaration.                              *)
(***************************************************************************)
\* the insert at event j is by a declaration inside a block or an `if`
Nested(j) ==
    \E b \in Enters("Block") \cup Enters("If") : b < j /\ j < ReturnOf(b)

\* the names declared inside a block or an `if` before event k of this line,
\* and the names bound by the lines before it
DeclaredBefore(k) ==
    DOMAIN pre.vars
        \cup { trace[j].name : j \in { q \in 1..(k - 1) : /\ trace[q].ev = "insert"
                                                          /\ trace[q].by = "exec_var_decl"
                                                          /\ Nested(q) } }

C20_FlatNamespace ==
    /\ \A k \in Events : trace[k].ev \in {"evaluate", "return"} =>
           DeclaredBefore(k) \subseteq DOMAIN trace[k].vars
    /\ \A k \in Events : trace[k].ev = "evaluate" =>
           LET e == trace[k].expr
               r == trace[ReturnOf(k)]
           IN  /\ (e.tag = "Identifier" /\ e.name \in DeclaredBefore(k)) => r.ok
               /\ (e.tag = "Assignment" /\ e.name \in DeclaredBefore(k))
                      => (r.ok \/ r.err # "variable not defined")
               /\ (e.tag = "VarDecl" /\ e.name \in DeclaredBefore(k))
                      => (~r.ok /\ r.err = "variable already defined")
    /\ DeclaredBefore(Len(trace) + 1) \subseteq DOMAIN interpreter.vars

\* { if 0 { val t = 1 }  t = 2  val t = 1 } with t not declared before: the
\* assignment finds t, the second declaration fails, t stays 2
C20_Witness ==
    /\ pc = "executed"
    /\ expr = Expr_Block(<<Expr_If(Lit(0), Block(<<DeclT>>), None),
                           Expr_Assignment("t", Lit(2)), DeclT>>)
    /\ "t" \notin DOMAIN pre.vars
    /\ ~result.ok
    /\ result.err = "variable already defined"
    /\ interpreter.vars["t"] = Value_Number(2 * Scale)
    /\ \E j \in Events : /\ trace[j].ev = "insert"
                         /\ trace[j].by = "exec_var_decl"
                         /\ Nested(j)


(***************************************************************************)
(* C21.  Calling next() time after time on any source text never fails or  *)
(* aborts; the cursor never moves back and stays within the text; a call   *)
(* that returns a token moves the cursor on by at least one character, so  *)
(* that no more tokens are returned than the text has characters; once     *)
(* next() has returned the end of input every later call returns it too.   *)
(***************************************************************************)
C21_LexerNeverFails ==
    /\ [](/\ ~lexed.panic
          /\ lexer.pos <= Len(lexer.source)
          /\ lexed.token.some => lexed.calls <= lexer.pos)
    /\ [][/\ lexer'.pos >= lexer.pos
          /\ lexed'.token.some => lexer'.pos > lexer.pos
          /\ (lexed.calls > 0 /\ ~lexed.token.some) => ~lexed'.token.some]_<<lexer, lexed>>

(***************************************************************************)
(* C22.  The lexer emits every token the parser asks for: when the cursor  *)
(* (after white space) is at one of ( ) { } [ ] , . : :: ; next() returns  *)
(* the token of that kind, and when it is at one of the words val, if,     *)
(* else, include it returns that keyword's token, not an identifier.       *)
(***************************************************************************)
\* the word at the cursor: the letters, digits and underscores from it on
WordAt(self) ==
    str_to_string(SubSeq(self.source, self.pos + 1, identifier_chars(self).pos))

C22_LexerCoversVocabulary ==
    [][(lexed'.calls = lexed.calls + 1 /\ ~lexed'.panic) =>
          LET self == skip_whitespace(lexer)
              c == current(self)
          IN  /\ (c.some /\ c.v \in DOMAIN Punctuation) =>
                     /\ lexed'.token.some
                     /\ lexed'.token.v =
                            IF c.v = ":" /\ peek(self) = Some(":")
                            THEN make_token("DblColon", "::")
                            ELSE make_token(Punctuation[c.v], c.v)
              /\ (c.some /\ WordAt(self) \in DOMAIN KeywordKinds) =>
                     /\ lexed'.token.some
                     /\ lexed'.token.v =
                            make_token(KeywordKinds[WordAt(self)], WordAt(self))
      ]_<<lexer, lexed>>


(***************************************************************************)
(* C23.  A chain of operands separated by binary operators parses into the *)
(* one BinaryOp tree in which * / % bind tighter than + -, these tighter   *)
(* than the comparison operators, and operators of one tier associate to   *)
(* the left: the root is the last operator of the loosest tier present.    *)
(***************************************************************************)
Tier(token_type) ==
    CASE token_type \in {"Mul", "Div", "Mod"} -> 3
      [] token_type \in {"Add", "Sub"} -> 2
      [] token_type \in {"DblEquals", "Neq", "Lt", "Gt", "Lte", "Gte"} -> 1

RECURSIVE Tree(_, _, _)
\* the tree of the chain tokens[lo..hi], operands at the odd places
Tree(tokens, lo, hi) ==
    IF lo = hi THEN Expr_Identifier(tokens[lo].lexeme)
    ELSE LET ops == {k \in lo..hi : (k - lo) % 2 = 1}
             loosest == CHOOSE t \in 1..3 :
                            /\ \E k \in ops : Tier(tokens[k].token_type) = t
                            /\ \A k \in ops : Tier(tokens[k].token_type) >= t
             root == CHOOSE k \in ops :
                         /\ Tier(tokens[k].token_type) = loosest
                         /\ \A q \in ops : Tier(tokens[q].token_type) = loosest => q <= k
         IN  Expr_BinaryOp(Tree(tokens, lo, root - 1), Tree(tokens, root + 1, hi),
                           tokens[root].token_type)

C23_PrecedenceAndAssociativity ==
    parsed.tokens \in BinaryTexts =>
        /\ parsed.ok
        /\ parsed.exprs = <<Tree(parsed.tokens, 1, Len(parsed.tokens))>>

\* a - b - c is (a - b) - c
C23_Witness ==
    /\ parsed.tokens = Tokens(<<"a", "-", "b", "-", "c">>)
    /\ parsed.ok
    /\ parsed.exprs =
           <<Expr_BinaryOp(Expr_BinaryOp(Expr_Identifier("a"), Expr_Identifier("b"), "Sub"),
                           Expr_Identifier("c"), "Sub")>>

(***************************************************************************)
(* C24.  In a collection literal an entry that is an expression with no    *)
(* `=` after it is a positional entry holding that whole expression,       *)
(* whatever it starts with; IDENT = expr and STRING = expr are string-     *)
(* keyed, NUMBER = expr is number-keyed, and any other left side of `=` is *)
(* rejected as an invalid key.                                             *)
(***************************************************************************)
ValidKey(e) ==
    \/ e.key = << >>
    \/ Len(e.key) = 1 /\ e.key[1].token_type \in {"Ident", "String", "Number"}

ExpectedEntry(e) ==
    LET value == parse_expr(Parser_new(e.value)).val IN
    IF e.key = << >> THEN CEntry_Indexed(value)
    ELSE IF e.key[1].token_type = "Number"
    THEN CEntry_NumKeyed(parse_f64(e.key[1].lexeme), value)
    ELSE CEntry_Keyed(e.key[1].lexeme, value)

C24_CollectionEntries ==
    \A entries \in EntryLists :
        parsed.tokens = CollectionText(entries) =>
            IF \A k \in DOMAIN entries : ValidKey(entries[k])
            THEN /\ parsed.ok
                 /\ parsed.exprs =
                        <<Expr_Collection([k \in DOMAIN entries |-> ExpectedEntry(entries[k])])>>
            ELSE /\ ~parsed.ok
                 /\ parsed.err = "invalid key usage type for collection structure entry."

(***************************************************************************)
(* C25.  Evaluating a collection literal evaluates its entries in literal  *)
(* order; the j-th positional entry, counting from 0 and passing over the  *)
(* keyed ones, is stored under Index(j); a string- or number-keyed entry   *)
(* is stored under its own key, which is no Index key, and uses up no      *)
(* index; size is the number of positional entries.                        *)
(***************************************************************************)
RECURSIVE EntryEnter(_, _)
\* the event at which the k-th entry of the literal entered at i is entered
EntryEnter(i, k) == IF k = 1 THEN i + 1 ELSE ReturnOf(EntryEnter(i, k - 1)) + 1

C25_LiteralEvaluation ==
    \A i \in Enters("Collection") :
        LET es == trace[i].expr.entries
            r == ReturnOf(i)
            positional == {k \in DOMAIN es : es[k].entry = "Indexed"}
            key(k) == CASE es[k].entry = "Indexed" ->
                               CKey_Index(Cardinality({q \in positional : q < k}))
                        [] es[k].entry = "Keyed" -> CKey_String(es[k].k)
                        [] es[k].entry = "NumKeyed" -> CKey_Number(to_string(es[k].n))
        IN  /\ \A k \in DOMAIN es :
                   /\ trace[EntryEnter(i, k)].ev = "evaluate"
                   /\ trace[EntryEnter(i, k)].expr = es[k].ex
            /\ r = IF es = << >> THEN i + 1 ELSE ReturnOf(EntryEnter(i, Len(es))) + 1
            /\ trace[r].ok
            /\ trace[r].val.type = "collection"
            /\ trace[r].val.c.size = Cardinality(positional)
            /\ DOMAIN trace[r].val.c.entries = {key(k) : k \in DOMAIN es}
            /\ IndexKeys(trace[r].val.c) = 0..(Cardinality(positional) - 1)
            /\ \A k \in DOMAIN es :
                   (\A q \in DOMAIN es : q > k => key(q) # key(k)) =>
                       trace[r].val.c.entries[key(k)] = trace[ReturnOf(EntryEnter(i, k))].val

\* [0 = 2, 1, k = 1, 2] would need four entries; with three: [1, 0 = 2, 2]
\* has 1 at Index(0), 2 at Index(1), 2 under the number key 0, and size 2
C25_Witness ==
    /\ pc = "executed"
    /\ expr = Expr_Collection(<<CEntry_Indexed(Lit(1)), CEntry_NumKeyed(0, Lit(2)),
                                CEntry_Indexed(Lit(2))>>)
    /\ result.ok
    /\ result.val.c.size = 2
    /\ result.val.c.entries[CKey_Index(0)] = Value_Number(1 * Scale)
    /\ result.val.c.entries[CKey_Index(1)] = Value_Number(2 * Scale)
    /\ result.val.c.entries[CKey_Number(to_string(0))] = Value_Number(2 * Scale)

(***************************************************************************)
(* C26.  In every collection bound to a variable (all of them come from a  *)
(* collection literal followed by push, pop and insert calls) every Index  *)
(* key present is below size; so the position a push writes, Index(size),  *)
(* is never taken: push overwrites nothing.                                *)
(***************************************************************************)
C26_IndexKeysBelowSize ==
    /\ \A c \in Collections : \A i \in IndexKeys(c) : i < c.size
    /\ \A d \in Dispatches("push", 1) :
           /\ \A i \in IndexKeys(trace[d].receiver.c) : i < trace[d].receiver.c.size
           /\ CKey_Index(trace[d].receiver.c.size) \notin DOMAIN trace[d].receiver.c.entries

\* x held a keyed and a positional entry, and a push on it has run
C26_Witness ==
    /\ pc = "executed"
    /\ expr.tag = "MethodCall"
    /\ expr.object = X
    /\ expr.method = "push"
    /\ result.ok
    /\ "x" \in DOMAIN pre.vars
    /\ pre.vars["x"].type = "collection"
    /\ IndexKeys(pre.vars["x"].c) # {}
    /\ CKey_String("k") \in DOMAIN pre.vars["x"].c.entries
    /\ interpreter.vars["x"].c.size = pre.vars["x"].c.size + 1

(***************************************************************************)
(* C27.  Push/pop round trip: for a variable holding a collection, the     *)
(* text `a.push(v); a.pop()` succeeds, its pop returns v, and the whole    *)
(* environment, so a's entries and size, is as it was before the push.     *)
(***************************************************************************)
C27_PushPopRoundTrip ==
    (/\ pc = "executed"
     /\ Len(code) = 2
     /\ code[1].tag = "MethodCall" /\ code[1].method = "push" /\ Len(code[1].args) = 1
     /\ code[1].object.tag = "Identifier"
     /\ code[2] = Expr_MethodCall(code[1].object, "pop", << >>)
     /\ code[1].object.name \in DOMAIN pre.vars
     /\ pre.vars[code[1].object.name].type = "collection") =>
        /\ expr = code[2]
        /\ result.ok
        /\ \A d \in Dispatches("push", 1) : result.val = trace[d].args[1]
        /\ Dispatches("push", 1) # {}
        /\ interpreter = pre

\* a holds positional and keyed entries; a.push([2]); a.pop() has returned
\* [2]
C27_Witness ==
    /\ pc = "executed"
    /\ code = <<Expr_MethodCall(A, "push", <<Expr_Collection(<<CEntry_Indexed(Lit(2))>>)>>),
                Expr_MethodCall(A, "pop", << >>)>>
    /\ "a" \in DOMAIN pre.vars
    /\ pre.vars["a"].type = "collection"
    /\ pre.vars["a"].c.size > 0
    /\ CKey_String("k") \in DOMAIN pre.vars["a"].c.entries
    /\ result.ok
    /\ result.val.type = "collection"
    /\ interpreter = pre

(***************************************************************************)
(* C28.  No aliasing between variables: `val b = a` and `b = a` bind b to  *)
(* a's value and leave a as it was, and a method call on one variable      *)
(* changes no other variable, so the calls on b after the copy leave a     *)
(* unchanged, and those on a leave b unchanged.                            *)
(***************************************************************************)
\* the expression whose value a declaration or an assignment binds
Copied(e) == IF e.tag = "VarDecl" THEN e.value ELSE e.assignee

C28_NoAliasing ==
    /\ (/\ pc = "executed" /\ Len(code) = 1 /\ result.ok
        /\ code[1].tag \in {"VarDecl", "Assignment"}
        /\ Copied(code[1]).tag = "Identifier") =>
           /\ interpreter.vars[code[1].name] = pre.vars[Copied(code[1]).name]
           /\ \A n \in DOMAIN pre.vars \ {code[1].name} : interpreter.vars[n] = pre.vars[n]
    /\ (/\ pc = "executed" /\ Len(code) > 0
        /\ \A j \in DOMAIN code : /\ code[j].tag = "MethodCall"
                                  /\ code[j].object = code[1].object
        /\ code[1].object.tag = "Identifier") =>
           /\ DOMAIN interpreter.vars = DOMAIN pre.vars
           /\ \A n \in DOMAIN pre.vars \ {code[1].object.name} :
                  interpreter.vars[n] = pre.vars[n]

\* b was equal to a, and b.push(1) has changed b alone
C28_Witness ==
    /\ pc = "executed"
    /\ code = <<Expr_MethodCall(B, "push", <<Lit(1)>>)>>
    /\ result.ok
    /\ {"a", "b"} \subseteq DOMAIN pre.vars
    /\ pre.vars["a"].type = "collection"
    /\ pre.vars["b"] = pre.vars["a"]
    /\ interpreter.vars["a"] = pre.vars["a"]
    /\ interpreter.vars["b"] # interpreter.vars["a"]

(***************************************************************************)
(* C29.  A method dispatched on an identifier receiver x that fails        *)
(* (unknown method, wrong argument count, wrong key type, out-of-bounds    *)
(* insert, or a receiver of a type without methods) returns the error at   *)
(* once and leaves the environment, so the value bound to x, exactly as it *)
(* was at the dispatch.                                                    *)
(***************************************************************************)
MethodErrors ==
    { "push method on array expects 1 argument", "pop method on array expects no argument",
      "size method on array expects no argument", "get method expects 1 argument",
      "collection key must be a number or string", "insert method expects 2 arguments",
      "index is out of bounds", "insert key must be a number or string",
      "unknown method for array", "len method on string expects no arguments",
      "unknown method for string", "cannot call method" }

C29_FailedCallLeavesReceiver ==
    /\ \A d \in Events :
           (/\ trace[d].ev = "call_method" /\ trace[d].on = "identifier"
            /\ trace[d + 1].ev = "return" /\ ~trace[d + 1].ok) =>
               /\ trace[d + 1].err \in MethodErrors
               /\ trace[d + 1].vars = trace[d].vars
               /\ trace[d].name \in DOMAIN trace[d + 1].vars
               /\ trace[d + 1].vars[trace[d].name] = trace[d].receiver
    /\ (/\ pc = "executed" /\ expr.tag = "MethodCall" /\ expr.object.tag = "Identifier"
        /\ ~result.ok /\ result.err \in MethodErrors) =>
           /\ expr.object.name \in DOMAIN interpreter.vars
           /\ interpreter.vars[expr.object.name] = pre.vars[expr.object.name]

\* x holds an empty collection and x.insert(1, v) has failed out of bounds
C29_Witness ==
    /\ pc = "executed"
    /\ expr.tag = "MethodCall"
    /\ expr.object = X
    /\ expr.method = "insert"
    /\ ~result.ok
    /\ result.err = "index is out of bounds"
    /\ "x" \in DOMAIN pre.vars
    /\ pre.vars["x"] = Value_Collection(CValue_new)
    /\ interpreter.vars["x"] = pre.vars["x"]

(***************************************************************************)
(* C30.  Parsing completes before evaluation: a source text with a parser  *)
(* error anywhere in it has none of its expressions evaluated (the only    *)
(* thing the line does is print the error), the interpreter (environment,  *)
(* natives, loaded modules) is as it was, and the loop returns to the      *)
(* prompt with that interpreter for the next input.                        *)
(***************************************************************************)
C30_ParseBeforeEvaluate ==
    [][/\ (pc = "prompt" /\ pc' = "executed" /\ ~parsed'.ok) =>
              /\ interpreter' = interpreter
              /\ code' = << >>
              /\ trace' = <<[ev |-> "parser error", err |-> parsed'.err]>>
       /\ (pc = "prompt" /\ pc' = "executed" /\ parsed'.ok) => code' = parsed'.exprs
       /\ (pc = "executed" /\ ~parsed.ok) => (pc' = "prompt" /\ interpreter' = interpreter)
      ]_vars

\* `val x=1 val =1` has failed in the parser with x left undeclared
C30_Witness ==
    /\ pc = "executed"
    /\ parsed.source = <<"v", "a", "l", " ", "x", "=", "1", " ", "v", "a", "l", " ", "=", "1">>
    /\ ~parsed.ok
    /\ "x" \notin DOMAIN interpreter.vars
    /\ trace = <<[ev |-> "parser error", err |-> parsed.err]>>

====
